---------------------------- MODULE Spec2Model ----------------------------
(***************************************************************************)
(* A model of the banner editor (src/components/CanvasEditor.tsx): the     *)
(* element list, the background record, the selection, the linear          *)
(* undo/redo history and the pointer-driven interaction flags.             *)
(*                                                                         *)
(* Conventions                                                             *)
(*  - every handler of the component is one action; it reads the state of  *)
(*    the render it was created in and the state setters it calls give the *)
(*    primed variables. A handler called from the JSX reads the current    *)
(*    render (the unprimed variables); the code after an await and the     *)
(*    keydown listener read the render they closed over, kept in `pending` *)
(*    and `keys`;                                                          *)
(*  - an optional field that is absent and one that holds `undefined` read *)
(*    the same in JavaScript; strings use "undefined", scaleX / scaleY use *)
(*    NoScale;                                                             *)
(*  - fractional quantities are scaled to integers: opacity and bgScale    *)
(*    are in tenths (bgScale 10 is the natural cover fit);                 *)
(*  - historyIndex is 0-based as in the source; history is a TLA+ sequence *)
(*    so the entry under the cursor is history[historyIndex + 1].          *)
(***************************************************************************)
EXTENDS Integers, Sequences, FiniteSets, TLC

VARIABLES
    initialElements,  \* prop: the element list handed to the editor
    elements,         \* useState: the live element list
    selectedIds,      \* useState: ids of the selected elements, in click order
    bgType, bgValue, bgOpacity, bgScale, bgX, bgY,  \* useState: background
    history,          \* useState: the snapshots
    historyIndex,     \* useState: the cursor (0-based)
    isDragging, isResizing, isRotating, isEditingText, potentialDrag,
    isDraggingBg, isResizingBg,                      \* useState: gesture flags
    dragStart,        \* useRef: pointer position at pointer-down
    elementsStart,    \* useRef: id -> element as it was at pointer-down
    bgDragStart,      \* useRef: pointer and background transform at pointer-down
    isGenerating,     \* useState: the awaiting-generation indicator
    exporter,         \* useState isSaving, the exports under way and the calls of onSave
    dom,              \* the browser: the editable text that has the focus, what it
                      \* holds, the blur events not yet delivered, and the
                      \* element the last mousedown was on
    pending,          \* the suspended async handlers, each with the render it closed over
    keys,             \* the render whose handlers the keydown listener closed over
    now,              \* Date.now(): the clock, in milliseconds since the editor opened
    drawn,            \* the number of Math.random() calls made so far
    apiKey,           \* geminiService: whether resolveApiKey() finds a key
    svc,              \* geminiService: the call in flight or settled last
    studio,           \* ImageStudio: currentImage, history, prompt, isProcessing
    campaign,         \* CopyGenerator: the form, the plan, the slots and the calls in flight
    lastOp,           \* observation: the handler that ran last
    run               \* observation: edits / undos counted since the editor opened

bgVars      == <<bgType, bgValue, bgOpacity, bgScale, bgX, bgY>>
histVars    == <<history, historyIndex>>
gestureVars == <<isDragging, isResizing, isRotating, isEditingText, potentialDrag,
                 isDraggingBg, isResizingBg>>
refVars     == <<dragStart, elementsStart, bgDragStart>>
asyncVars   == <<isGenerating, pending>>
vars == <<initialElements, elements, selectedIds, bgVars, histVars, gestureVars,
          refVars, asyncVars, exporter, dom, keys, now, drawn, apiKey, svc,
          studio, campaign, lastOp, run>>

---------------------------------------------------------------------------
(* Bounds of the model *)

\* commits explored in the specifications that do not need a full history
EditBudget == 3
\* commits explored by the history specification: one more than the retention
\* limit, so that the eviction happens
DeepBudget == 21
\* undo invocations explored by the history specification
UndoBudget == 6
\* commits explored by the background, lock and layer-order specifications
BackgroundBudget == 1
LockBudget == 2
ZBudget == 2
\* commits explored by the element-list and duplication specifications, and
\* the milliseconds the clock may advance
ListBudget == 2
FillBudget == 3
GestureBudget == 2
\* edits explored by the specification of the image service: Magic Edits of
\* the editor, and edits of the Image Studio beyond its first
ServiceBudget == 2
DuplicateBudget == 2
ClockBound == 1

---------------------------------------------------------------------------
(* Program constants *)

HISTORY_LIMIT == 20
NoScale == 0
NoFontSize == 0
CanvasBase == 800

\* getCanvasDimensions for aspectRatio '1:1'
dims == [width |-> CanvasBase, height |-> CanvasBase]

---------------------------------------------------------------------------
(* JavaScript helpers *)

Min(a, b) == IF a < b THEN a ELSE b
Max(a, b) == IF a > b THEN a ELSE b

\* a ?? d  on an optional scale factor
OrDefault(v, d) == IF v = NoScale THEN d ELSE v

\* { ...a, ...b }
Spread(a, b) ==
    [k \in (DOMAIN a) \cup (DOMAIN b) |-> IF k \in DOMAIN b THEN b[k] ELSE a[k]]

\* arr.includes(x)
Includes(arr, x) == \E i \in 1..Len(arr) : arr[i] = x

\* arr.map(f) is written [i \in DOMAIN arr |-> f(arr[i])] and arr.filter(keep)
\* is SelectSeq(arr, keep).

\* JSON.parse(JSON.stringify(x)): a structural copy. The values of the model
\* are finite numbers, strings, booleans and absent fields, on which the round
\* trip returns an equal value that shares nothing with x.
DeepCopy(x) == x

---------------------------------------------------------------------------
(* The initial props *)

\* the style openEditor gives a text (headlineStyle) and an image ({zIndex, opacity});
\* an absent fontSize is NoFontSize, an absent color "undefined"
PlanStyle(type, z) ==
    IF type \in {"text", "cta"}
    THEN [zIndex |-> z, color |-> "#ffffff", gradient |-> "undefined",
          fontSize |-> 48, opacity |-> 10]
    ELSE [zIndex |-> z, color |-> "undefined", gradient |-> "undefined",
          fontSize |-> NoFontSize, opacity |-> 10]

\* an element as openEditor builds it from the plan: no scaleX / scaleY, no locked
PlanElement(id, type, content, x, y, w, h, z) ==
    [id |-> id, type |-> type, content |-> content, x |-> x, y |-> y,
     width |-> w, height |-> h, rotation |-> 0,
     scaleX |-> NoScale, scaleY |-> NoScale, locked |-> FALSE,
     style |-> PlanStyle(type, z)]

\* the same element as a previous editor session saved it (scale factors set)
SavedElement(e) == [e EXCEPT !.scaleX = 1, !.scaleY = 1]

BrandAsset   == PlanElement("brand-asset", "image", "asset.png", 250, 30, 100, 100, 25)
MainHeadline == PlanElement("main-headline", "text", "Headline", 20, 150, 560, 100, 20)

\* the element lists the editor is opened with
InitialElementLists ==
    { <<BrandAsset, MainHeadline>>,
      <<SavedElement(BrandAsset), SavedElement(MainHeadline)>> }

\* line 131: the live list is a copy with scaleX / scaleY defaulted to 1
Normalised(els) ==
    [i \in DOMAIN els |->
        [DeepCopy(els)[i] EXCEPT !.scaleX = OrDefault(els[i].scaleX, 1),
                                 !.scaleY = OrDefault(els[i].scaleY, 1)]]

---------------------------------------------------------------------------
(* The Scene and the History *)

\* the live Scene: the element list and every background field
Scene ==
    [elements |-> elements, bgValue |-> bgValue, bgType |-> bgType,
     bgOpacity |-> bgOpacity, bgScale |-> bgScale, bgX |-> bgX, bgY |-> bgY]

Entry(els, bg, type, opacity, scale, x, y) ==
    [elements |-> els, bgValue |-> bg, bgType |-> type,
     bgOpacity |-> opacity, bgScale |-> scale, bgX |-> x, bgY |-> y]

\* the Scene that undo / redo load from an entry (every entry carries all the
\* background fields, so the `?? 1` / `?? 0` defaults of lines 238-241 never apply)
Loaded(entry) ==
    [elements |-> DeepCopy(entry.elements), bgValue |-> entry.bgValue,
     bgType |-> entry.bgType, bgOpacity |-> entry.bgOpacity,
     bgScale |-> entry.bgScale, bgX |-> entry.bgX, bgY |-> entry.bgY]

\* lines 216-226: truncate beyond the cursor, append, evict the oldest over the limit
Pushed(h, idx, entry) ==
    LET newHistory == Append(SubSeq(h, 1, idx + 1), entry)
    IN  IF Len(newHistory) > HISTORY_LIMIT THEN Tail(newHistory) ELSE newHistory

\* saveToHistory as called from a closure that holds history h and cursor idx
SaveFrom(h, idx, newElements, newBg, newBgType, newBgOpacity, newBgScale, newBgX, newBgY) ==
    /\ history' = Pushed(h, idx, Entry(DeepCopy(newElements), newBg, newBgType,
                                       newBgOpacity, newBgScale, newBgX, newBgY))
    /\ historyIndex' = Len(history') - 1

\* saveToHistory(newElements) with the defaults of the current render
saveToHistory(newElements) ==
    SaveFrom(history, historyIndex, newElements, bgValue, bgType, bgOpacity,
             bgScale, bgX, bgY)

SetScene(s) ==
    /\ elements' = s.elements
    /\ bgValue' = s.bgValue
    /\ bgType' = s.bgType
    /\ bgOpacity' = s.bgOpacity
    /\ bgScale' = s.bgScale
    /\ bgX' = s.bgX
    /\ bgY' = s.bgY

\* lines 232-241: the cursor and Scene after undo from cursor idx
UndoResult(h, idx, scene) ==
    IF idx > 0
    THEN [historyIndex |-> idx - 1, scene |-> Loaded(h[idx])]
    ELSE [historyIndex |-> idx, scene |-> scene]

\* lines 246-255: the cursor and Scene after redo from cursor idx
RedoResult(h, idx, scene) ==
    IF idx < Len(h) - 1
    THEN [historyIndex |-> idx + 1, scene |-> Loaded(h[idx + 2])]
    ELSE [historyIndex |-> idx, scene |-> scene]

\* the state a render's functions close over
Closure(kind) ==
    [kind |-> kind, elements |-> elements, selectedIds |-> selectedIds,
     history |-> history, historyIndex |-> historyIndex,
     bgValue |-> bgValue, bgType |-> bgType, bgOpacity |-> bgOpacity,
     bgScale |-> bgScale, bgX |-> bgX, bgY |-> bgY,
     isEditingText |-> isEditingText]

\* undo of the render c: it reads c's history and cursor; without a snapshot
\* to load it calls no setter
undoFrom(c) ==
    LET r == UndoResult(c.history, c.historyIndex, Scene)
    IN  /\ lastOp' = "undo"
        /\ historyIndex' = IF c.historyIndex > 0 THEN r.historyIndex ELSE historyIndex
        /\ SetScene(r.scene)
        /\ UNCHANGED <<initialElements, selectedIds, history, gestureVars, refVars,
                       asyncVars>>

redoFrom(c) ==
    LET r == RedoResult(c.history, c.historyIndex, Scene)
    IN  /\ lastOp' = "redo"
        /\ historyIndex' = IF c.historyIndex < Len(c.history) - 1
                            THEN r.historyIndex ELSE historyIndex
        /\ SetScene(r.scene)
        /\ UNCHANGED <<initialElements, selectedIds, history, gestureVars, refVars,
                       asyncVars>>

\* lines 1227-1228: the toolbar buttons call the current render's undo / redo
undo == undoFrom(Closure("render"))

redo == redoFrom(Closure("render"))

---------------------------------------------------------------------------
(* Initial state *)

NoGesture ==
    /\ isDragging = FALSE /\ isResizing = FALSE /\ isRotating = FALSE
    /\ isEditingText = FALSE /\ potentialDrag = FALSE
    /\ isDraggingBg = FALSE /\ isResizingBg = FALSE

---------------------------------------------------------------------------
(* geminiService (src/unnamed/part_000). A prompt is a sequence of            *)
(* characters; a request is what generateContent is called with; a response   *)
(* is one of Responses.                                                        *)

UpperCase ==
    <<"A", "B", "C", "D", "E", "F", "G", "H", "I", "J", "K", "L", "M", "N",
     "O", "P", "Q", "R", "S", "T", "U", "V", "W", "X", "Y", "Z">>

LowerCase ==
    <<"a", "b", "c", "d", "e", "f", "g", "h", "i", "j", "k", "l", "m", "n",
     "o", "p", "q", "r", "s", "t", "u", "v", "w", "x", "y", "z">>

\* String.prototype.toLowerCase on the letters A-Z
ToLowerCase(str) ==
    [k \in 1..Len(str) |->
        IF \E u \in 1..Len(UpperCase) : UpperCase[u] = str[k]
        THEN LowerCase[CHOOSE u \in 1..Len(UpperCase) : UpperCase[u] = str[k]]
        ELSE str[k]]

\* String.prototype.includes
StrIncludes(str, sub) ==
    \E i \in 0..(Len(str) - Len(sub)) : SubSeq(str, i + 1, i + Len(sub)) = sub

\* line 190: "user provided background"
BackgroundSignal ==
    <<"u", "s", "e", "r", " ", "p", "r", "o", "v", "i", "d", "e", "d", " ",
     "b", "a", "c", "k", "g", "r", "o", "u", "n", "d">>

\* the prompts the callers pass: empty, a description, and the signal in
\* mixed and in upper case
PromptDusk == <<"d", "u", "s", "k">>

PromptSignalMixed ==
    <<"U", "s", "e", "r", " ", "P", "r", "o", "v", "i", "d", "e", "d", " ",
     "B", "a", "c", "k", "g", "r", "o", "u", "n", "d">>

PromptSignalUpper ==
    <<"U", "S", "E", "R", " ", "P", "R", "O", "V", "I", "D", "E", "D", " ",
     "B", "A", "C", "K", "G", "R", "O", "U", "N", "D">>

Prompts == {<<>>, PromptDusk, PromptSignalMixed, PromptSignalUpper}

\* what a response of the model carries: image data, nothing (no candidate
\* content), only text (a refusal), parts with neither image nor text, or the
\* request throws
Responses == {"image", "exception", "noContent", "text", "noImage"}

\* no call yet; `caller` names the component that made the call, `hints` are
\* the reference images it passed, `requests` and `responses` log the traffic
ServiceIdle ==
    [fn |-> "none", caller |-> "none", prompt |-> <<>>, aspectRatio |-> "",
     hints |-> <<>>, attempt |-> 0, requests |-> <<>>, responses |-> <<>>,
     outcome |-> "none", value |-> ""]

\* the arguments of a call
Called(fn, prompt, aspectRatio, hints) ==
    [ServiceIdle EXCEPT !.fn = fn, !.prompt = prompt, !.aspectRatio = aspectRatio,
                        !.hints = hints]

\* CopyGenerator.tsx lines 11-47: the component as it mounts. An object key
\* that is absent reads "undefined" (an image) or FALSE (a flag), the plan
\* is <<>> while it is null and <<data>> once set; `planning`
\* and `flights` hold the suspended handleSubmit and triggerImageGeneration
\* calls, `alert` is the message of the last alert shown, `issued` numbers
\* the calls of triggerImageGeneration, and `latest`
\* and `wrote` observe, per slot, the last call issued and the call whose
\* completion wrote the slot's image last, and `asked` the arguments of the
\* last call issued
Slots == {"main", "slide-0"}

CampaignIdle ==
    [userPrompt |-> "", aspectRatio |-> "1:1",
     backgroundImage |-> "", assetImage |-> "",
     isPlanning |-> FALSE, plan |-> <<>>,
     generatedImages |-> [s \in Slots |-> "undefined"],
     generatingStatus |-> [s \in Slots |-> FALSE],
     generationErrors |-> [s \in Slots |-> FALSE],
     planning |-> {}, flights |-> {}, issued |-> 0, submitted |-> 0,
     alert |-> "",
     latest |-> [s \in Slots |-> 0], wrote |-> [s \in Slots |-> 0],
     asked |-> [s \in Slots |-> <<>>]]

ServiceInit ==
    /\ svc = ServiceIdle
    /\ campaign = CampaignIdle
    /\ studio = [currentImage |-> "", history |-> <<>>, prompt |-> <<>>,
                 isProcessing |-> FALSE]

\* lines 227, 236: the two framings of executeGen's promptText
StrictPrompt(prompt) ==
    [prefix |-> "Professional photography, ", prompt |-> prompt,
     suffix |-> ". Cinematic lighting, 8k resolution, high quality, highly detailed, text-free background."]

FallbackPrompt(prompt) ==
    [prefix |-> "Artistic illustration style, ", prompt |-> prompt,
     suffix |-> ". Soft colors, minimalist, abstract, high quality, no text."]

\* lines 196-207: the request executeGen sends
GenRequest(promptText, aspectRatio) ==
    [model |-> "gemini-2.5-flash-image", text |-> promptText, image |-> "",
     aspectRatio |-> IF aspectRatio = "4:5" THEN "3:4" ELSE aspectRatio]

\* lines 211, 274: the data URL built from the response's image part
ImageOf(request) == "data:image/png;base64,generated"

\* lines 209-220, 268-276: the error a response without image data raises
ErrorOf(resp) ==
    CASE resp = "exception" -> "request failed"
      [] resp = "noContent" -> "No content generated"
      [] resp = "text" -> "refusal text"
      [] OTHER -> "No image data found"

\* lines 186-236: generateImage up to its first await. Without an API key
\* getClient throws inside executeGen in both attempts (lines 15-21, 195).
generateImageFrom(prompt, aspectRatio, referenceImages) ==
    LET call == Called("generateImage", prompt, aspectRatio, referenceImages)
    IN  IF prompt = <<>>
        THEN [call EXCEPT !.outcome = "resolved"]
        ELSE IF StrIncludes(ToLowerCase(prompt), BackgroundSignal)
        THEN [call EXCEPT
                !.outcome = "resolved",
                !.value = IF Len(referenceImages) > 0 THEN referenceImages[1] ELSE ""]
        ELSE IF ~apiKey
        THEN [call EXCEPT
                !.attempt = 2, !.outcome = "rejected",
                !.value = "Model refused to generate image. Try a simpler prompt."]
        ELSE [call EXCEPT
                !.attempt = 1,
                !.requests = <<GenRequest(StrictPrompt(prompt), aspectRatio)>>,
                !.outcome = "pending"]

\* generateImage without its second attempt
generateImageAfterNoFallback(call, resp) ==
    LET heard == [call EXCEPT !.responses = Append(call.responses, resp)]
    IN  IF resp = "image"
        THEN [heard EXCEPT !.outcome = "resolved",
                           !.value = ImageOf(call.requests[Len(call.requests)])]
        ELSE [heard EXCEPT
                !.outcome = "rejected",
                !.value = "Model refused to generate image. Try a simpler prompt."]

\* lines 209-241: generateImage after the response to its outstanding request
generateImageAfter(call, resp) ==
    LET heard == [call EXCEPT !.responses = Append(call.responses, resp)]
    IN  IF resp = "image"
        THEN [heard EXCEPT !.outcome = "resolved",
                           !.value = ImageOf(call.requests[Len(call.requests)])]
        ELSE IF call.attempt = 1
        THEN [heard EXCEPT
                !.attempt = 2,
                !.requests = Append(call.requests,
                                    GenRequest(FallbackPrompt(call.prompt),
                                               call.aspectRatio))]
        ELSE [heard EXCEPT
                !.outcome = "rejected",
                !.value = "Model refused to generate image. Try a simpler prompt."]

\* lines 246-266: editImageWithGemini up to its await
editImageFrom(base64Image, prompt) ==
    LET call == Called("editImage", prompt, "", <<>>)
    IN  IF prompt = <<>>
        THEN [call EXCEPT !.outcome = "rejected", !.value = "Prompt is required"]
        ELSE IF ~apiKey
        THEN [call EXCEPT
                !.outcome = "rejected",
                !.value = "Missing Gemini API key. Set VITE_GEMINI_API_KEY or GEMINI_API_KEY in your environment."]
        ELSE [call EXCEPT
                !.attempt = 1,
                !.requests = <<[model |-> "gemini-2.5-flash-image", text |-> prompt,
                                image |-> base64Image, aspectRatio |-> ""]>>,
                !.outcome = "pending"]

\* editImageWithGemini taking a response without image data for a result
editImageAfterLenient(call, resp) ==
    LET heard == [call EXCEPT !.responses = Append(call.responses, resp)]
    IN  [heard EXCEPT !.outcome = "resolved",
                      !.value = IF resp = "image" THEN ImageOf(call.requests[1]) ELSE ""]

\* lines 268-281: editImageWithGemini after the response
editImageAfter(call, resp) ==
    LET heard == [call EXCEPT !.responses = Append(call.responses, resp)]
    IN  IF resp = "image"
        THEN [heard EXCEPT !.outcome = "resolved", !.value = ImageOf(call.requests[1])]
        ELSE [heard EXCEPT !.outcome = "rejected",
                           !.value = IF resp \in {"text", "noImage"}
                                     THEN "No image data found in response"
                                     ELSE ErrorOf(resp)]

---------------------------------------------------------------------------
(* The state after construction *)

\* the editor opened on one of lists, the background scale of the saved
\* background state (line 119) being one of scales
EditorInitAt(lists, scales) ==
    /\ initialElements \in lists
    /\ elements = Normalised(initialElements)
    /\ selectedIds = <<>>
    /\ bgType = "image" /\ bgValue = "bg.png" /\ bgOpacity = 10
    /\ bgScale \in scales /\ bgX = 0 /\ bgY = 0
    /\ history = <<Entry(initialElements, bgValue, bgType, bgOpacity, bgScale, bgX, bgY)>>
    /\ historyIndex = 0
    /\ NoGesture
    /\ dragStart = [x |-> 0, y |-> 0]
    /\ elementsStart = <<>>
    /\ bgDragStart = [x |-> 0, y |-> 0, initialX |-> 0, initialY |-> 0, initialScale |-> 10]
    /\ isGenerating = FALSE
    /\ pending = {}
    /\ dom = [focus |-> "", textContent |-> "", blurs |-> <<>>, target |-> ""]
    /\ exporter = [isSaving |-> FALSE, runs |-> <<>>, started |-> 0,
                   delivered |-> <<>>, returned |-> <<>>]
    /\ keys = Closure("keydown")
    /\ now = 0
    /\ drawn = 0
    /\ lastOp = "open"
    /\ run = [edits |-> 0, undos |-> 0, straight |-> TRUE]

\* the editor opened without a saved background state: the natural scale
EditorInit(lists) == EditorInitAt(lists, {10})

\* the editor opened in an application that has an API key
InitWith(lists) == EditorInit(lists) /\ ServiceInit /\ apiKey = TRUE

Init == InitWith(InitialElementLists)

---------------------------------------------------------------------------
(* Selection through the Layers list *)

\* line 1110: a row of the Layers list
LayerRowClick(id) ==
    /\ \E i \in 1..Len(elements) : elements[i].id = id
    /\ selectedIds' = <<id>>
    /\ lastOp' = "select"
    /\ UNCHANGED <<initialElements, elements, bgVars, histVars, gestureVars,
                   refVars, asyncVars>>

\* line 891
activeElement ==
    IF Len(selectedIds) = 1 /\ \E i \in 1..Len(elements) : elements[i].id = selectedIds[1]
    THEN {elements[CHOOSE i \in 1..Len(elements) : elements[i].id = selectedIds[1]]}
    ELSE {}

---------------------------------------------------------------------------
(* Element actions *)

IsSelected(el) == Includes(selectedIds, el.id)

flip(dir) ==
    LET Flipped(el) ==
            IF ~IsSelected(el) THEN el
            ELSE [el EXCEPT
                    !.scaleX = IF dir = "h" THEN OrDefault(el.scaleX, 1) * (-1)
                               ELSE OrDefault(el.scaleX, 1),
                    !.scaleY = IF dir = "v" THEN OrDefault(el.scaleY, 1) * (-1)
                               ELSE OrDefault(el.scaleY, 1)]
        updated == [i \in DOMAIN elements |-> Flipped(elements[i])]
    IN  /\ elements' = updated
        /\ saveToHistory(updated)
        /\ lastOp' = "flip"
        /\ UNCHANGED <<initialElements, selectedIds, bgVars, gestureVars, refVars,
                       asyncVars>>

\* line 1426: the Flip button of the image toolbar
FlipButton ==
    /\ \E el \in activeElement : el.type \in {"image", "logo"}
    /\ flip("h")

\* elements.find(e => e.id === id), as a set with at most one member
Find(els, id) ==
    IF \E i \in 1..Len(els) : els[i].id = id
    THEN {els[CHOOSE i \in 1..Len(els) : els[i].id = id]}
    ELSE {}

styleKeys ==
    {"fontSize", "fontFamily", "fontWeight", "fontStyle", "textDecoration",
     "lineHeight", "letterSpacing", "color", "gradient", "backgroundColor",
     "textAlign", "borderRadius", "padding", "opacity", "zIndex", "borderWidth",
     "borderColor"}

\* lines 262-273: the element list after updateSelected(updates)
Updated(els, sel, updates) ==
    [i \in DOMAIN els |->
        IF ~Includes(sel, els[i].id) THEN els[i]
        ELSE IF els[i].locked THEN els[i]
        ELSE IF \E k \in DOMAIN updates : k \in styleKeys
             THEN [els[i] EXCEPT !.style = Spread(els[i].style, updates)]
             ELSE Spread(els[i], updates)]

updateSelected(updates) ==
    LET updated == Updated(elements, selectedIds, updates)
    IN  /\ elements' = updated
        /\ saveToHistory(updated)
        /\ lastOp' = "updateSelected"
        /\ UNCHANGED <<initialElements, selectedIds, bgVars, gestureVars, refVars,
                       asyncVars>>

\* lines 1437-1442: the Transparency slider, shown for any non-empty selection
TransparencySlider(v) ==
    /\ Len(selectedIds) > 0
    /\ updateSelected([opacity |-> v])

\* lines 83-85, 88-94: two of the picker's swatches each
COLORS == {"#000000", "#8b5cf6"}

GRADIENTS ==
    {"linear-gradient(to right, #ec4899, #8b5cf6)",
     "linear-gradient(to right, #3b82f6, #10b981)"}

\* line 1297: the text tools are shown for a single selected text or cta element
TextToolsShown == \E el \in activeElement : el.type \in {"text", "cta"}

\* lines 1337, 1342: the custom colour input and the colour swatches
ColorPicker(c) ==
    /\ TextToolsShown
    /\ updateSelected([color |-> c, gradient |-> "undefined"])

\* line 1354: the gradient swatches
GradientPicker(g) ==
    /\ TextToolsShown
    /\ updateSelected([gradient |-> g])

\* lines 1075-1079: the X field of the Advanced panel, shown for a single selection
PositionXField(v) ==
    /\ activeElement # {}
    /\ updateSelected([x |-> v])

\* lines 279-282
Remaining(els, sel) == SelectSeq(els, LAMBDA el : ~Includes(sel, el.id))

\* deleteSelected of the render c, saveToHistory taking c's history, cursor
\* and background defaults
deleteSelectedFrom(c) ==
    LET updated == Remaining(c.elements, c.selectedIds)
    IN  /\ elements' = updated
        /\ selectedIds' = <<>>
        /\ SaveFrom(c.history, c.historyIndex, updated, c.bgValue, c.bgType,
                    c.bgOpacity, c.bgScale, c.bgX, c.bgY)
        /\ lastOp' = "deleteSelected"
        /\ UNCHANGED <<initialElements, bgVars, gestureVars, refVars, asyncVars>>

deleteSelected == deleteSelectedFrom(Closure("render"))

\* line 1122: the delete button of the row of the element id in the Layers
\* list: setSelectedIds([el.id]) is queued, and deleteSelected, the function
\* of the render on screen, reads that render's selectedIds and then queues
\* setSelectedIds([]), which is the one that stays
LayerRowDelete(id) ==
    /\ Find(elements, id) # {}
    /\ LET updated == Remaining(elements, selectedIds)
       IN  /\ elements' = updated
           /\ selectedIds' = <<>>
           /\ saveToHistory(updated)
    /\ lastOp' = "layerRowDelete"
    /\ UNCHANGED <<initialElements, bgVars, gestureVars, refVars, asyncVars>>

\* line 1534: the delete button of the floating menu of a selected element
DeleteButton ==
    /\ \E i \in 1..Len(elements) : IsSelected(elements[i])
    /\ deleteSelected

\* lines 309-314
LockToggled(els, sel) ==
    [i \in DOMAIN els |->
        IF Includes(sel, els[i].id) THEN [els[i] EXCEPT !.locked = ~els[i].locked]
        ELSE els[i]]

toggleLock ==
    LET updated == LockToggled(elements, selectedIds)
    IN  /\ elements' = updated
        /\ saveToHistory(updated)
        /\ lastOp' = "toggleLock"
        /\ UNCHANGED <<initialElements, selectedIds, bgVars, gestureVars, refVars,
                       asyncVars>>

\* line 1536: the lock button of the floating menu of a selected element
LockButton ==
    /\ \E i \in 1..Len(elements) : IsSelected(elements[i])
    /\ toggleLock

\* lines 369-382
Aligned(els, sel, type) ==
    [i \in DOMAIN els |->
        IF ~Includes(sel, els[i].id) THEN els[i]
        ELSE [els[i] EXCEPT
                !.x = CASE type = "left"   -> 0
                        [] type = "center" -> (dims.width - els[i].width) \div 2
                        [] type = "right"  -> dims.width - els[i].width
                        [] OTHER           -> els[i].x,
                !.y = CASE type = "top"    -> 0
                        [] type = "middle" -> (dims.height - els[i].height) \div 2
                        [] type = "bottom" -> dims.height - els[i].height
                        [] OTHER           -> els[i].y]]

alignToPage(type) ==
    LET updated == Aligned(elements, selectedIds, type)
    IN  /\ elements' = updated
        /\ saveToHistory(updated)
        /\ lastOp' = "alignToPage"
        /\ UNCHANGED <<initialElements, selectedIds, bgVars, gestureVars, refVars,
                       asyncVars>>

\* lines 1041-1046: the align buttons are disabled without a single selection
AlignButton(type) ==
    /\ activeElement # {}
    /\ alignToPage(type)

---------------------------------------------------------------------------
(* Layer order *)

\* el.style.zIndex || 0
ZOf(el) == el.style.zIndex

\* line 325: the position (1-based) of els[i] in [...els].sort by zIndex; the
\* sort is stable, so equal zIndex keeps the list order
RankOf(els, i) ==
    1 + Cardinality({j \in DOMAIN els :
                        \/ ZOf(els[j]) < ZOf(els[i])
                        \/ (ZOf(els[j]) = ZOf(els[i]) /\ j < i)})

\* the index in els of the element at position r of the sorted list
AtRank(els, r) == CHOOSE i \in DOMAIN els : RankOf(els, i) = r

\* changeZIndex that normalises the zIndex values and moves nothing
NewZNormalisedOnly(els, id, type, i) == RankOf(els, i) * 10

\* changeZIndex without the normalisation: only the target moves, by one
NewZUnnormalised(els, id, type, i) ==
    IF els[i].id # id THEN els[i].style.zIndex
    ELSE IF type \in {"front", "forward"} THEN els[i].style.zIndex + 1
    ELSE els[i].style.zIndex - 1

\* lines 328-354: the zIndex that changeZIndex(type) gives els[i], id being
\* selectedIds[0]
NewZ(els, id, type, i) ==
    LET n == Len(els)
        own == (RankOf(els, i)) * 10
        present == Find(els, id) # {}
        t == IF present THEN CHOOSE k \in DOMAIN els : els[k].id = id ELSE 0
        currentIndex == IF present THEN RankOf(els, t) - 1 ELSE -1
    IN  CASE type = "front" -> IF present /\ i = t THEN (n + 1) * 10 ELSE own
          [] type = "back"  -> IF present /\ i = t THEN 0 ELSE own
          [] type = "forward" ->
                IF currentIndex < n - 1
                THEN LET next == AtRank(els, currentIndex + 2)
                     IN  IF present /\ i = t THEN RankOf(els, next) * 10
                         ELSE IF i = next
                              \* idToZ[nextEl.id] = currentZ, undefined when id
                              \* names no element: the old zIndex is kept
                              THEN IF present THEN RankOf(els, t) * 10
                                   ELSE els[i].style.zIndex
                              ELSE own
                ELSE own
          [] type = "backward" ->
                IF currentIndex > 0
                THEN LET prev == AtRank(els, currentIndex)
                     IN  IF i = t THEN RankOf(els, prev) * 10
                         ELSE IF i = prev THEN RankOf(els, t) * 10
                         ELSE own
                ELSE own

Reordered(els, id, type) ==
    [i \in DOMAIN els |-> [els[i] EXCEPT !.style.zIndex = NewZ(els, id, type, i)]]

changeZIndex(type) ==
    /\ lastOp' = type
    /\ IF Len(selectedIds) = 0
       THEN UNCHANGED <<elements, histVars>>
       ELSE LET updated == Reordered(elements, selectedIds[1], type)
            IN  /\ elements' = updated
                /\ saveToHistory(updated)
    /\ UNCHANGED <<initialElements, selectedIds, bgVars, gestureVars, refVars,
                   asyncVars>>

\* lines 1018-1030: the four layer-order buttons are disabled without a single
\* selection
LayerOrderButton(type) ==
    /\ activeElement # {}
    /\ changeZIndex(type)

\* lines 806-807: the paint order of the export (ascending zIndex, stable)
PaintOrder(els) == [r \in 1..Len(els) |-> els[AtRank(els, r)].id]

---------------------------------------------------------------------------
(* Background controls *)

\* line 1129: the Background row of the Layers list; lines 1450-1452: a click
\* on the empty workspace
ClearSelection ==
    /\ selectedIds' = <<>>
    /\ lastOp' = "select"
    /\ UNCHANGED <<initialElements, elements, bgVars, histVars, gestureVars,
                   refVars, asyncVars>>

\* the wheel's sum taken as it is, without the two bounds
ClampScaleUnbounded(v) == v

\* Math.min(Math.max(0.5, v), 5) in tenths
ClampScale(v) == Min(Max(5, v), 50)

\* deltaY is the wheel event's deltaY; -deltaY * 0.001 is -deltaY / 100 tenths
handleCanvasWheel(deltaY) ==
    /\ lastOp' = "wheel"
    /\ IF Len(selectedIds) = 0 /\ bgType = "image"
       THEN bgScale' = ClampScale(bgScale + ((-deltaY) \div 100))
       ELSE UNCHANGED bgScale
    /\ UNCHANGED <<initialElements, elements, selectedIds, bgType, bgValue,
                   bgOpacity, bgX, bgY, histVars, gestureVars, refVars, asyncVars>>

\* lines 1256, 1271-1283: the Scale / Pan X / Pan Y sliders of the background toolbar
BgScaleSlider(v) ==
    /\ Len(selectedIds) = 0 /\ bgType = "image"
    /\ bgScale' = v
    /\ lastOp' = "bgScaleSlider"
    /\ UNCHANGED <<initialElements, elements, selectedIds, bgType, bgValue,
                   bgOpacity, bgX, bgY, histVars, gestureVars, refVars, asyncVars>>

BgPanSlider(axis, v) ==
    /\ Len(selectedIds) = 0 /\ bgType = "image"
    /\ IF axis = "x" THEN bgX' = v /\ UNCHANGED bgY ELSE bgY' = v /\ UNCHANGED bgX
    /\ lastOp' = "bgPanSlider"
    /\ UNCHANGED <<initialElements, elements, selectedIds, bgType, bgValue,
                   bgOpacity, bgScale, histVars, gestureVars, refVars, asyncVars>>

\* lines 1256, 1291: the Opacity slider of the background toolbar
BgOpacitySlider(v) ==
    /\ Len(selectedIds) = 0
    /\ bgOpacity' = v
    /\ lastOp' = "bgOpacitySlider"
    /\ UNCHANGED <<initialElements, elements, selectedIds, bgType, bgValue,
                   bgScale, bgX, bgY, histVars, gestureVars, refVars, asyncVars>>

\* lines 1154 and 1261: Reset to Color / Set Background Color
ResetToColor ==
    /\ Len(selectedIds) = 0
    /\ bgType' = "color"
    /\ bgValue' = "#ffffff"
    /\ lastOp' = "resetToColor"
    /\ UNCHANGED <<initialElements, elements, selectedIds, bgOpacity, bgScale,
                   bgX, bgY, histVars, gestureVars, refVars, asyncVars>>

\* line 1430: Set as BG on the selected image
SetAsBG ==
    /\ \E el \in activeElement :
          /\ el.type \in {"image", "logo"}
          /\ bgValue' = el.content
    /\ bgType' = "image"
    /\ lastOp' = "setAsBG"
    /\ UNCHANGED <<initialElements, elements, selectedIds, bgOpacity, bgScale,
                   bgX, bgY, histVars, gestureVars, refVars, asyncVars>>

---------------------------------------------------------------------------
(* Pointer handlers. Pointer positions are client pixels; the view zoom is   *)
(* the initial zoomLevel 0.6, so a client distance d is d / 0.6 page units.  *)

SNAP_THRESHOLD == 10

\* (client distance) / zoomLevel, exact for the multiples of 3 the model uses
ToPage(d) == (d * 10) \div 6

Abs(n) == IF n < 0 THEN -n ELSE n

\* lines 620-626
Reselected(sel, id, shiftKey) ==
    IF shiftKey
    THEN IF Includes(sel, id) THEN SelectSeq(sel, LAMBDA sid : sid # id)
         ELSE Append(sel, id)
    ELSE IF ~Includes(sel, id) THEN <<id>> ELSE sel

\* lines 634-638
StartStates(els, sel) ==
    [sid \in {sel[i] : i \in 1..Len(sel)} \cap {els[i].id : i \in 1..Len(els)} |->
        CHOOSE el \in Find(els, sid) : TRUE]

\* the resize and rotate handles are rendered on selected, unlocked elements
\* (lines 1584-1592); the element itself always takes the 'drag' pointer-down
handleMouseDown(id, action, shiftKey, clientX, clientY) ==
    /\ Find(elements, id) # {}
    /\ action \in {"resize", "rotate"} =>
          \E el \in Find(elements, id) : IsSelected(el) /\ ~el.locked
    /\ IF \/ \E el \in Find(elements, id) : el.locked
          \/ (isEditingText /\ Includes(selectedIds, id) /\ action = "drag")
       THEN /\ lastOp' = "mouseDownIgnored"
            /\ UNCHANGED <<selectedIds, gestureVars, refVars>>
       ELSE LET newSelectedIds == Reselected(selectedIds, id, shiftKey)
            IN  /\ lastOp' = "mouseDown"
                /\ selectedIds' = newSelectedIds
                /\ potentialDrag' = IF action = "drag" THEN TRUE ELSE potentialDrag
                /\ isResizing' = IF action = "resize" THEN TRUE ELSE isResizing
                /\ isRotating' = IF action = "rotate" THEN TRUE ELSE isRotating
                /\ dragStart' = [x |-> clientX, y |-> clientY]
                /\ elementsStart' = StartStates(elements, newSelectedIds)
                /\ UNCHANGED <<isDragging, isEditingText, isDraggingBg, isResizingBg,
                               bgDragStart>>
    /\ UNCHANGED <<initialElements, elements, bgVars, histVars, asyncVars>>

\* the background layer takes pointer events only when nothing is selected and
\* the background is an image (line 1467); its handles are rendered under the
\* same condition (line 1485)
handleBgMouseDown(type, clientX, clientY) ==
    /\ Len(selectedIds) = 0 /\ bgType = "image"
    /\ lastOp' = "bgMouseDown"
    /\ IF bgType # "image"
       THEN UNCHANGED <<isDraggingBg, isResizingBg, bgDragStart>>
       ELSE /\ bgDragStart' = [x |-> clientX, y |-> clientY, initialX |-> bgX,
                               initialY |-> bgY, initialScale |-> bgScale]
            /\ isDraggingBg' = IF type = "drag" THEN TRUE ELSE isDraggingBg
            /\ isResizingBg' = IF type = "resize" THEN TRUE ELSE isResizingBg
    /\ UNCHANGED <<initialElements, elements, selectedIds, bgVars, histVars,
                   isDragging, isResizing, isRotating, isEditingText, potentialDrag,
                   dragStart, elementsStart, asyncVars>>

\* lines 674-694: the element list while dragging by (deltaX, deltaY)
Dragged(els, sel, starts, deltaX, deltaY) ==
    [i \in DOMAIN els |->
        IF ~Includes(sel, els[i].id) THEN els[i]
        ELSE IF els[i].id \notin DOMAIN starts THEN els[i]
        ELSE LET start == starts[els[i].id]
                 rawX == start.x + deltaX
                 rawY == start.y + deltaY
                 centerX == dims.width \div 2
                 centerY == dims.height \div 2
                 newX == IF Len(sel) = 1
                            /\ Abs((rawX + els[i].width \div 2) - centerX) < SNAP_THRESHOLD
                         THEN centerX - els[i].width \div 2 ELSE rawX
                 newY == IF Len(sel) = 1
                            /\ Abs((rawY + els[i].height \div 2) - centerY) < SNAP_THRESHOLD
                         THEN centerY - els[i].height \div 2 ELSE rawY
             IN  [els[i] EXCEPT !.x = newX, !.y = newY]]

\* lines 698-714: the element list while resizing the single selection
Resized(els, sel, starts, deltaX, deltaY) ==
    IF Len(sel) = 1 /\ Find(els, sel[1]) # {} /\ sel[1] \in DOMAIN starts
    THEN LET start == starts[sel[1]]
             newW == Max(20, start.width + deltaX)
             newH == Max(20, start.height + deltaY)
         IN  [i \in DOMAIN els |->
                IF els[i].id # sel[1] THEN els[i]
                ELSE [els[i] EXCEPT
                        !.width = newW, !.height = newH,
                        !.style.fontSize =
                            IF els[i].type \in {"text", "cta"}
                            THEN LET size == IF start.style.fontSize = NoFontSize
                                             THEN 16 ELSE start.style.fontSize
                                 \* Math.round(size * newW / start.width)
                                 IN  (2 * size * newW + start.width)
                                         \div (2 * start.width)
                            ELSE start.style.fontSize]]
    ELSE els

\* line 728: snap to a multiple of 45 degrees; JavaScript's % keeps the sign of
\* the dividend and Math.round rounds half up
JsRem(a, b) == IF a >= 0 THEN a % b ELSE -((-a) % b)
Snapped(angle) ==
    IF Abs(JsRem(angle, 45)) < 5 THEN ((2 * angle + 45) \div 90) * 45 ELSE angle

\* lines 717-731: pointerAngle is Math.atan2 of the pointer about the element's
\* centre, in whole degrees
Rotated(els, sel, pointerAngle) ==
    IF Len(sel) = 1 /\ Find(els, sel[1]) # {}
    THEN [i \in DOMAIN els |->
            IF els[i].id # sel[1] THEN els[i]
            ELSE [els[i] EXCEPT !.rotation = Snapped(pointerAngle + 90)]]
    ELSE els

handleMouseMove(clientX, clientY, pointerAngle) ==
    /\ lastOp' = "mouseMove"
    /\ IF isDraggingBg
       THEN /\ bgX' = bgDragStart.initialX + ToPage(clientX - bgDragStart.x)
            /\ bgY' = bgDragStart.initialY + ToPage(clientY - bgDragStart.y)
            /\ UNCHANGED <<elements, bgScale, isDragging, potentialDrag>>
       ELSE IF isResizingBg
       THEN /\ bgScale' = Max(5, Min(50, bgDragStart.initialScale
                                          + (bgDragStart.y - clientY) \div 10))
            /\ UNCHANGED <<elements, bgX, bgY, isDragging, potentialDrag>>
       ELSE IF Len(selectedIds) = 0
       THEN UNCHANGED <<elements, bgX, bgY, bgScale, isDragging, potentialDrag>>
       ELSE LET deltaX == ToPage(clientX - dragStart.x)
                deltaY == ToPage(clientY - dragStart.y)
                moved == IF isDragging
                         THEN Dragged(elements, selectedIds, elementsStart, deltaX, deltaY)
                         ELSE elements
                sized == IF isResizing
                         THEN Resized(moved, selectedIds, elementsStart, deltaX, deltaY)
                         ELSE moved
                turned == IF isRotating
                          THEN Rotated(sized, selectedIds, pointerAngle)
                          ELSE sized
            IN  /\ IF potentialDrag /\ (Abs(deltaX) > 2 \/ Abs(deltaY) > 2)
                   THEN isDragging' = TRUE /\ potentialDrag' = FALSE
                   ELSE UNCHANGED <<isDragging, potentialDrag>>
                /\ elements' = turned
                /\ UNCHANGED <<bgX, bgY, bgScale>>
    /\ UNCHANGED <<initialElements, selectedIds, bgType, bgValue, bgOpacity,
                   histVars, isResizing, isRotating, isEditingText, isDraggingBg,
                   isResizingBg, refVars, asyncVars>>

\* lines 735-755; also bound to pointer-leave (line 898)
handleMouseUp ==
    /\ lastOp' = "mouseUp"
    /\ LET editText == /\ potentialDrag /\ Len(selectedIds) = 1
                       /\ \E el \in Find(elements, selectedIds[1]) :
                             el.type \in {"text", "cta"} /\ ~el.locked
           first == ~(potentialDrag /\ Len(selectedIds) = 1)
                    /\ (isDragging \/ isResizing \/ isRotating)
           second == isDraggingBg \/ isResizingBg
       IN  /\ isEditingText' = IF editText THEN TRUE ELSE isEditingText
           \* both calls read the same render and pass the same Scene, so two
           \* calls leave the history that one leaves
           /\ IF first \/ second THEN saveToHistory(elements)
              ELSE UNCHANGED histVars
    /\ isDragging' = FALSE /\ potentialDrag' = FALSE /\ isResizing' = FALSE
    /\ isRotating' = FALSE /\ isDraggingBg' = FALSE /\ isResizingBg' = FALSE
    /\ UNCHANGED <<initialElements, elements, selectedIds, bgVars, refVars, asyncVars>>

---------------------------------------------------------------------------
(* Background generation: an async handler. The code after the await runs in *)
(* the closure of the render in which the button was pressed.                *)

\* lines 518-522, up to the await; the button is disabled while isGenerating
GenerateBackgroundStart ==
    /\ ~isGenerating
    /\ isGenerating' = TRUE
    /\ pending' = pending \cup {Closure("generateBackground")}
    /\ lastOp' = "generateStart"
    /\ UNCHANGED <<initialElements, elements, selectedIds, bgVars, histVars,
                   gestureVars, refVars>>

\* lines 523-531 and 536: generateImage resolved with newBg
GenerateBackgroundResolve(newBg) ==
    \E c \in pending :
        /\ c.kind = "generateBackground"
        /\ bgValue' = newBg
        /\ bgType' = "image"
        /\ bgScale' = 10
        /\ bgX' = 0
        /\ bgY' = 0
        /\ SaveFrom(c.history, c.historyIndex, c.elements, newBg, "image", 10, 10, 0, 0)
        /\ isGenerating' = FALSE
        /\ pending' = pending \ {c}
        /\ lastOp' = "generateResolve"
        /\ UNCHANGED <<initialElements, elements, selectedIds, bgOpacity,
                       gestureVars, refVars>>

\* lines 532-536: generateImage rejected
\* a catch block that installs an empty background and commits it
GenerateBackgroundRejectCommitting ==
    \E c \in pending :
        /\ c.kind = "generateBackground"
        /\ bgValue' = ""
        /\ bgType' = "image"
        /\ SaveFrom(c.history, c.historyIndex, c.elements, "", "image", 10, 10, 0, 0)
        /\ isGenerating' = FALSE
        /\ pending' = pending \ {c}
        /\ lastOp' = "generateReject"
        /\ UNCHANGED <<initialElements, elements, selectedIds, bgOpacity, bgScale,
                       bgX, bgY, gestureVars, refVars>>

GenerateBackgroundReject ==
    \E c \in pending :
        /\ c.kind = "generateBackground"
        /\ isGenerating' = FALSE
        /\ pending' = pending \ {c}
        /\ lastOp' = "generateReject"
        /\ UNCHANGED <<initialElements, elements, selectedIds, bgVars, histVars,
                       gestureVars, refVars>>

---------------------------------------------------------------------------
(* Adding, uploading and duplicating elements. Date.now() is the clock `now`. *)
(* Math.random() never returns the same value twice: its n-th call returns    *)
(* Random(n).                                                                  *)

Random(n) == n

\* lines 408: the highest zIndex of the list, 0 for an empty list
MaxZ(els) ==
    IF Len(els) = 0 THEN 0
    ELSE LET top == CHOOSE i \in 1..Len(els) : \A j \in 1..Len(els) : ZOf(els[i]) >= ZOf(els[j])
         IN  Max(0, ZOf(els[top]))

\* line 403
NewId(type, ms) == "new-" \o type \o "-" \o ToString(ms)

\* lines 403-470: the element addElement(type, subType) builds
NewElement(type, subType, els, ms) ==
    LET centerX == dims.width \div 2
        centerY == dims.height \div 2
        base == [id |-> NewId(type, ms), type |-> type, content |-> "",
                 x |-> centerX - 100, y |-> centerY - 50, width |-> 200, height |-> 100,
                 rotation |-> 0, scaleX |-> 1, scaleY |-> 1, locked |-> FALSE,
                 style |-> [zIndex |-> MaxZ(els) + 10, color |-> "undefined",
                            gradient |-> "undefined", fontSize |-> NoFontSize,
                            opacity |-> 10]]
    IN  CASE type = "text" ->
                [base EXCEPT
                    !.content = CASE subType = "heading" -> "Add a heading"
                                  [] subType = "subheading" -> "Add a subheading"
                                  [] OTHER -> "Add a little bit of body text",
                    !.style.fontSize = CASE subType = "heading" -> 64
                                         [] subType = "subheading" -> 42
                                         [] OTHER -> 24,
                    !.style.color = "#ffffff",
                    !.width = 400,
                    !.height = IF subType = "heading" THEN 80 ELSE 40,
                    !.x = centerX - 200]
          [] type = "shape" ->
                [base EXCEPT !.content = "#8b5cf6", !.width = 200, !.height = 200,
                             !.x = centerX - 100, !.y = centerY - 100]
          [] OTHER -> base

\* lines 402-477; the sidebar buttons (lines 944-975) call the current render's
addElement(type, subType) ==
    LET newElement == NewElement(type, subType, elements, now)
        newElements == Append(elements, newElement)
    IN  /\ elements' = newElements
        /\ selectedIds' = <<newElement.id>>
        /\ saveToHistory(newElements)
        /\ lastOp' = "addElement"
        /\ UNCHANGED <<initialElements, bgVars, gestureVars, refVars, asyncVars>>

\* line 291
CloneId(type, ms, rand) == type \o "-" \o ToString(ms) \o "-" \o ToString(rand)

\* lines 292-297
Clone(el, ms, rand) ==
    [DeepCopy(el) EXCEPT !.id = CloneId(el.type, ms, rand), !.x = el.x + 20,
                         !.y = el.y + 20]

\* lines 286-301: the clones of the selected elements of els, in list order;
\* the k-th clone takes the k-th Math.random() after the calls already made
Clones(els, sel, ms, calls) ==
    LET picked == {i \in 1..Len(els) : Includes(sel, els[i].id)}
        nth(k) == CHOOSE i \in picked : Cardinality({j \in picked : j < i}) = k - 1
    IN  [k \in 1..Cardinality(picked) |-> Clone(els[nth(k)], ms, Random(calls + k))]

\* duplicateSelected of the render c
duplicateSelectedFrom(c) ==
    LET clones == Clones(c.elements, c.selectedIds, now, drawn)
        newElements == c.elements \o clones
    IN  /\ elements' = newElements
        /\ selectedIds' = [k \in 1..Len(clones) |-> clones[k].id]
        /\ SaveFrom(c.history, c.historyIndex, newElements, c.bgValue, c.bgType,
                    c.bgOpacity, c.bgScale, c.bgX, c.bgY)
        /\ drawn' = drawn + Len(clones)
        /\ lastOp' = "duplicateSelected"
        /\ UNCHANGED <<initialElements, bgVars, gestureVars, refVars, asyncVars>>

\* line 1533: the duplicate button of the floating menu of a selected element
DuplicateButton ==
    /\ \E i \in 1..Len(elements) : IsSelected(elements[i])
    /\ duplicateSelectedFrom(Closure("render"))

\* lines 479-514: the file input's change event starts the FileReader; its
\* callbacks run in the closure of the render that handled the event
UploadStart ==
    /\ pending' = pending \cup {Closure("upload")}
    /\ lastOp' = "uploadStart"
    /\ UNCHANGED <<initialElements, elements, selectedIds, bgVars, histVars,
                   gestureVars, refVars, isGenerating>>

\* lines 483-510: reader.onloadend takes the id from the clock and img.onload
\* appends the element; width x height is the decoded image's size
UploadDecoded(width, height) ==
    \E c \in pending :
        /\ c.kind = "upload"
        /\ LET baseWidth == 400
               baseHeight == (baseWidth * height) \div width
               newEl == [id |-> "img-" \o ToString(now), type |-> "image",
                         content |-> "upload.png",
                         x |-> (dims.width - baseWidth) \div 2,
                         y |-> (dims.height - baseHeight) \div 2,
                         width |-> baseWidth, height |-> baseHeight, rotation |-> 0,
                         scaleX |-> 1, scaleY |-> 1, locked |-> FALSE,
                         style |-> [zIndex |-> MaxZ(c.elements) + 10,
                                    color |-> "undefined", gradient |-> "undefined",
                                    fontSize |-> NoFontSize, opacity |-> 10]]
               newElements == Append(c.elements, newEl)
           IN  /\ elements' = newElements
               /\ selectedIds' = <<newEl.id>>
               /\ SaveFrom(c.history, c.historyIndex, newElements, c.bgValue, c.bgType,
                           c.bgOpacity, c.bgScale, c.bgX, c.bgY)
        /\ pending' = pending \ {c}
        /\ lastOp' = "uploadDecoded"
        /\ UNCHANGED <<initialElements, bgVars, gestureVars, refVars, isGenerating>>

\* the clock advances by a millisecond
Tick ==
    /\ now' = now + 1
    /\ UNCHANGED <<initialElements, elements, selectedIds, bgVars, histVars,
                   gestureVars, refVars, asyncVars, keys, drawn, apiKey, svc, studio,
                   campaign, exporter, dom,
                   lastOp, run>>

---------------------------------------------------------------------------
(* The callers of the service. One call is followed at a time: a caller      *)
(* starts a call when none is outstanding.                                    *)

EditorUnchanged ==
    UNCHANGED <<initialElements, elements, selectedIds, bgVars, histVars, gestureVars,
                refVars, asyncVars, exporter, dom, keys, now, drawn, lastOp, run>>

\* CopyGenerator.tsx line 127: triggerImageGeneration calls generateImage
GenerateImageCall(prompt, aspectRatio, referenceImages) ==
    /\ svc.outcome # "pending"
    /\ svc' = [generateImageFrom(prompt, aspectRatio, referenceImages)
                 EXCEPT !.caller = "CopyGenerator"]
    /\ EditorUnchanged
    /\ UNCHANGED <<apiKey, studio, campaign>>

\* the response to the outstanding request of generateImage arrives
GenerateImageResponse(resp) ==
    /\ svc.fn = "generateImage" /\ svc.outcome = "pending"
    /\ svc' = generateImageAfter(svc, resp)
    /\ EditorUnchanged
    /\ UNCHANGED <<apiKey, studio, campaign>>

\* ImageStudio.tsx lines 13-24: an image is uploaded
handleFileUpload(base64String) ==
    /\ studio' = [studio EXCEPT !.currentImage = base64String,
                                !.history = <<base64String>>]
    /\ EditorUnchanged
    /\ UNCHANGED <<apiKey, svc, campaign>>

\* ImageStudio.tsx line 116: the prompt textarea
StudioPrompt(text) ==
    /\ studio' = [studio EXCEPT !.prompt = text]
    /\ EditorUnchanged
    /\ UNCHANGED <<apiKey, svc, campaign>>

\* ImageStudio.tsx lines 44-50, button at lines 91-92
handleUndo ==
    /\ Len(studio.history) > 1 /\ ~studio.isProcessing
    /\ LET newHistory == SubSeq(studio.history, 1, Len(studio.history) - 1)
       IN  studio' = [studio EXCEPT !.history = newHistory,
                                    !.currentImage = newHistory[Len(newHistory)]]
    /\ EditorUnchanged
    /\ UNCHANGED <<apiKey, svc, campaign>>

\* ImageStudio.tsx lines 26-32: handleEdit up to the await; a call that fails
\* before any request is sent is caught at once (lines 36-41)
handleEdit ==
    /\ studio.currentImage # "" /\ studio.prompt # <<>>
    /\ ~studio.isProcessing
    /\ svc.outcome # "pending"
    /\ LET call == [editImageFrom(studio.currentImage, studio.prompt)
                      EXCEPT !.caller = "ImageStudio"]
       IN  /\ svc' = call
           /\ studio' = [studio EXCEPT !.isProcessing = (call.outcome = "pending")]
    /\ EditorUnchanged
    /\ UNCHANGED <<apiKey, campaign>>

\* ImageStudio.tsx lines 32-41: handleEdit after the await
handleEditSettled(resp) ==
    /\ svc.fn = "editImage" /\ svc.caller = "ImageStudio" /\ svc.outcome = "pending"
    /\ LET call == editImageAfter(svc, resp)
       IN  /\ svc' = call
           /\ studio' = IF call.outcome = "resolved"
                         THEN [currentImage |-> call.value,
                               history |-> Append(studio.history, call.value),
                               prompt |-> <<>>, isProcessing |-> FALSE]
                         ELSE [studio EXCEPT !.isProcessing = FALSE]
    /\ EditorUnchanged
    /\ UNCHANGED <<apiKey, campaign>>

\* CanvasEditor.tsx lines 545-554: the image Magic Edit works on in render c
TargetImage(c) ==
    IF Len(c.selectedIds) = 0 /\ c.bgType = "image" THEN c.bgValue
    ELSE IF Len(c.selectedIds) = 1
              /\ \E el \in Find(c.elements, c.selectedIds[1]) : el.type \in {"image", "logo"}
    THEN (CHOOSE el \in Find(c.elements, c.selectedIds[1]) : TRUE).content
    ELSE ""

\* CanvasEditor.tsx lines 540-561: handleMagicEdit up to the await; the button
\* is disabled while isGenerating (line 1179)
handleMagicEdit(editPrompt) ==
    /\ editPrompt # <<>>
    /\ ~isGenerating
    /\ svc.outcome # "pending"
    /\ LET c == Closure("magicEdit")
           call == [editImageFrom(TargetImage(c), editPrompt) EXCEPT !.caller = "CanvasEditor"]
       IN  IF TargetImage(c) = ""
           THEN UNCHANGED <<svc, isGenerating, pending>>
           ELSE /\ svc' = call
                /\ isGenerating' = (call.outcome = "pending")
                /\ pending' = IF call.outcome = "pending" THEN pending \cup {c}
                               ELSE pending
    /\ lastOp' = "magicEdit"
    /\ UNCHANGED <<initialElements, elements, selectedIds, bgVars, histVars,
                   gestureVars, refVars, studio>>

\* CanvasEditor.tsx lines 561-581: handleMagicEdit after the await, in the
\* closure of the render that handled the click
handleMagicEditSettled(resp) ==
    \E c \in pending :
        /\ c.kind = "magicEdit"
        /\ svc.fn = "editImage" /\ svc.caller = "CanvasEditor" /\ svc.outcome = "pending"
        /\ LET call == editImageAfter(svc, resp)
               isBg == Len(c.selectedIds) = 0 /\ c.bgType = "image"
               updated == [i \in DOMAIN c.elements |->
                              IF c.elements[i].id = c.selectedIds[1]
                              THEN [c.elements[i] EXCEPT !.content = call.value]
                              ELSE c.elements[i]]
           IN  /\ svc' = call
               /\ IF call.outcome # "resolved"
                  THEN UNCHANGED <<elements, bgVars, histVars>>
                  ELSE IF isBg
                  THEN /\ bgValue' = call.value
                       /\ bgType' = "image"
                       /\ SaveFrom(c.history, c.historyIndex, c.elements, call.value,
                                   "image", c.bgOpacity, c.bgScale, c.bgX, c.bgY)
                       /\ UNCHANGED <<elements, bgOpacity, bgScale, bgX, bgY>>
                  ELSE IF Len(c.selectedIds) = 1
                  THEN /\ elements' = updated
                       /\ SaveFrom(c.history, c.historyIndex, updated, c.bgValue,
                                   c.bgType, c.bgOpacity, c.bgScale, c.bgX, c.bgY)
                       /\ UNCHANGED bgVars
                  ELSE UNCHANGED <<elements, bgVars, histVars>>
        /\ isGenerating' = FALSE
        /\ pending' = pending \ {c}
        /\ lastOp' = "magicEditSettled"
        /\ UNCHANGED <<initialElements, selectedIds, gestureVars, refVars, studio>>

---------------------------------------------------------------------------
(* The keydown listener (lines 175-191). The effect installs a listener that *)
(* calls the deleteSelected / undo / redo of the render it ran in, and it    *)
(* runs again only after a render in which selectedIds, isEditingText or     *)
(* historyIndex differ from the previous render's.                           *)

\* the handlers that install a new selectedIds array whatever its contents
\* (lines 281, 303, 475, 508, 619-627, 1110, 1129, 1451)
NewSelectionArray ==
    {"select", "deleteSelected", "mouseDown", "addElement", "duplicateSelected",
     "uploadDecoded", "layerRowDelete"}

\* the effect after the render that follows a handler
KeyboardEffect ==
    keys' = IF \/ selectedIds' # selectedIds
               \/ lastOp' \in NewSelectionArray
               \/ isEditingText' # isEditingText
               \/ historyIndex' # historyIndex
            THEN [kind |-> "keydown", elements |-> elements',
                  selectedIds |-> selectedIds', history |-> history',
                  historyIndex |-> historyIndex', bgValue |-> bgValue',
                  bgType |-> bgType', bgOpacity |-> bgOpacity',
                  bgScale |-> bgScale', bgX |-> bgX', bgY |-> bgY',
                  isEditingText |-> isEditingText']
            ELSE keys

\* lines 177-179: Delete / Backspace
KeyDelete ==
    /\ Len(keys.selectedIds) > 0 /\ ~keys.isEditingText
    /\ deleteSelectedFrom(keys)

\* lines 184-187: Ctrl/Cmd+D
KeyDuplicate == duplicateSelectedFrom(keys)

\* lines 180-183: Ctrl/Cmd+Z and Ctrl/Cmd+Shift+Z
KeyUndo == undoFrom(keys)

KeyRedo == redoFrom(keys)

---------------------------------------------------------------------------
(* In-place text editing. The text of a text / cta element is a div that is  *)
(* contentEditable while the element is selected and isEditingText (line     *)
(* 1553); nothing focuses it, so the user clicks into it. What is typed is   *)
(* held by the DOM only, until the div's onBlur reads it (line 1577). A      *)
(* press outside the focused div runs the mousedown handler first, React     *)
(* renders, and the browser then delivers the blur to the handler of that    *)
(* render.                                                                    *)

\* line 1553: the element's text is an editable div in this render
Editable(id) ==
    /\ isEditingText /\ Includes(selectedIds, id)
    /\ \E el \in Find(elements, id) : el.type \in {"text", "cta"}

\* the text inputs of the side panel and the toolbar: the Magic Edit prompt
\* (line 1174) and the Width field of the selected element (line 1057)
Fields == {"editPrompt", "width"}

\* the focus is in the editable text of an element
InPlaceFocus == dom.focus \notin Fields \cup {""}

\* the blur event of the text that has the focus: currentTarget and what it
\* holds
Blurred == [currentTarget |-> dom.focus, textContent |-> dom.textContent]

\* the default action of a mousedown on the element id: the focus moves to
\* the element's editable text, or away from the one that had it
FocusAfterPress(id, action) ==
    IF action = "drag" /\ Editable(id)
    THEN IF dom.focus = id THEN dom
         ELSE [dom EXCEPT
                 !.focus = id,
                 !.textContent = (CHOOSE el \in Find(elements, id) : TRUE).content,
                 !.blurs = IF InPlaceFocus THEN Append(dom.blurs, Blurred)
                           ELSE dom.blurs]
    ELSE IF dom.focus # ""
    THEN [dom EXCEPT !.focus = "", !.textContent = "",
                     !.blurs = IF InPlaceFocus THEN Append(dom.blurs, Blurred)
                               ELSE dom.blurs]
    ELSE dom

\* lines 1516, 1584-1592: a press on an element or on one of its handles
ElementPress(id, action, shiftKey, clientX, clientY) ==
    /\ handleMouseDown(id, action, shiftKey, clientX, clientY)
    /\ dom' = [FocusAfterPress(id, action) EXCEPT !.target = id]

\* the user types into the focused text
TypeText(text) ==
    /\ dom.focus # ""
    /\ dom' = [dom EXCEPT !.textContent = text]
    /\ lastOp' = "type"
    /\ UNCHANGED <<initialElements, elements, selectedIds, bgVars, histVars,
                   gestureVars, refVars, asyncVars>>

\* the focus leaves the editor's text for something outside the canvas
FocusLeaves ==
    /\ dom.focus # ""
    /\ dom' = [dom EXCEPT !.focus = "", !.textContent = "",
                          !.blurs = IF InPlaceFocus THEN Append(dom.blurs, Blurred)
                                    ELSE dom.blurs]
    /\ lastOp' = "focusLeaves"
    /\ UNCHANGED <<initialElements, elements, selectedIds, bgVars, histVars,
                   gestureVars, refVars, asyncVars>>

\* the user clicks into a text input outside the canvas; the Width field is
\* rendered while a single element is selected (lines 1051, 1057)
FocusField(field) ==
    /\ field \in Fields /\ dom.focus # field
    /\ field = "width" => activeElement # {}
    /\ dom' = [dom EXCEPT !.focus = field, !.textContent = "",
                          !.blurs = IF InPlaceFocus THEN Append(dom.blurs, Blurred)
                                    ELSE dom.blurs]
    /\ lastOp' = "focusField"
    /\ UNCHANGED <<initialElements, elements, selectedIds, bgVars, histVars,
                   gestureVars, refVars, asyncVars>>

\* line 1577: onBlur of an editable text, textContent being the text of the
\* div that lost the focus
onBlur ==
    /\ dom.blurs # <<>>
    /\ LET textContent == Head(dom.blurs).textContent
           updated == Updated(elements, selectedIds, [content |-> textContent])
       IN  /\ isEditingText' = FALSE
           /\ elements' = updated
           /\ saveToHistory(updated)
    /\ dom' = [dom EXCEPT !.blurs = Tail(dom.blurs)]
    /\ lastOp' = "blur"
    /\ UNCHANGED <<initialElements, selectedIds, bgVars, isDragging, isResizing,
                   isRotating, potentialDrag, isDraggingBg, isResizingBg, refVars,
                   asyncVars>>

\* no blur event is waiting to be delivered
NoBlurDue == dom.blurs = <<>>

---------------------------------------------------------------------------
(* The export: generateCanvasData paints the render it was called in onto a  *)
(* canvas. A raster is the sequence of the layers painted, the background    *)
(* first; <<>> stands for null. Which image sources decode is the            *)
(* environment's choice: `broken` is the set of sources whose Image fires    *)
(* onerror, and drawImage throws InvalidStateError for such an image.         *)

\* lines 778-781, 818-820: the image sources of the render c
ImageSources(c) ==
    (IF c.bgType \notin {"color", "gradient"} THEN {c.bgValue} ELSE {})
      \cup {c.elements[i].content :
              i \in {k \in 1..Len(c.elements) : c.elements[k].type \in {"image", "logo"}}}

\* lines 758-873: generateCanvasData of the render c
generateCanvasData(c, broken) ==
    LET bgThrows == c.bgType \notin {"color", "gradient"} /\ c.bgValue \in broken
        elThrows == \E i \in 1..Len(c.elements) :
                       /\ c.elements[i].type \in {"image", "logo"}
                       /\ c.elements[i].content \in broken
    IN  IF bgThrows \/ elThrows THEN <<>>
        ELSE <<"background">> \o PaintOrder(c.elements)

\* an export that leaves out the layers whose source does not decode
generateCanvasDataSkipping(c, broken) ==
    LET painted(id) ==
            \A i \in 1..Len(c.elements) :
                (c.elements[i].id = id /\ c.elements[i].type \in {"image", "logo"})
                    => c.elements[i].content \notin broken
    IN  <<"background">> \o SelectSeq(PaintOrder(c.elements), painted)

\* lines 875-876: handleSave up to its await (the button is never disabled)
handleSave ==
    /\ exporter' = [exporter EXCEPT !.isSaving = TRUE,
                                    !.started = exporter.started + 1,
                                    !.runs = Append(exporter.runs, Closure("save"))]
    /\ lastOp' = "save"
    /\ UNCHANGED <<initialElements, elements, selectedIds, bgVars, histVars,
                   gestureVars, refVars, asyncVars>>

\* handleSave returning early, before it clears isSaving, when the export
\* produced nothing
handleSaveSettledReturning(k, broken) ==
    /\ k \in 1..Len(exporter.runs)
    /\ broken \subseteq ImageSources(exporter.runs[k])
    /\ LET c == exporter.runs[k]
           finalImage == generateCanvasData(c, broken)
       IN  exporter' =
             [isSaving |-> IF finalImage # <<>> THEN FALSE ELSE exporter.isSaving,
              started |-> exporter.started,
              runs |-> [i \in 1..(Len(exporter.runs) - 1) |->
                           IF i < k THEN exporter.runs[i] ELSE exporter.runs[i + 1]],
              delivered |->
                 IF finalImage # <<>>
                 THEN Append(exporter.delivered,
                             [finalImage |-> finalImage, elements |-> c.elements,
                              background |-> [type |-> c.bgType, value |-> c.bgValue,
                                              opacity |-> c.bgOpacity,
                                              scale |-> c.bgScale,
                                              x |-> c.bgX, y |-> c.bgY]])
                 ELSE exporter.delivered,
              returned |-> <<[finalImage |-> finalImage, broken |-> broken,
                              render |-> c]>>]
    /\ lastOp' = "saveSettled"
    /\ UNCHANGED <<initialElements, elements, selectedIds, bgVars, histVars,
                   gestureVars, refVars, asyncVars>>

\* lines 877-889: generateCanvasData has returned and handleSave resumes
handleSaveSettled(k, broken) ==
    /\ k \in 1..Len(exporter.runs)
    /\ broken \subseteq ImageSources(exporter.runs[k])
    /\ LET c == exporter.runs[k]
           finalImage == generateCanvasData(c, broken)
       IN  exporter' =
             [isSaving |-> FALSE,
              started |-> exporter.started,
              runs |-> [i \in 1..(Len(exporter.runs) - 1) |->
                           IF i < k THEN exporter.runs[i] ELSE exporter.runs[i + 1]],
              delivered |->
                 IF finalImage # <<>>
                 THEN Append(exporter.delivered,
                             [finalImage |-> finalImage, elements |-> c.elements,
                              background |-> [type |-> c.bgType, value |-> c.bgValue,
                                              opacity |-> c.bgOpacity,
                                              scale |-> c.bgScale,
                                              x |-> c.bgX, y |-> c.bgY]])
                 ELSE exporter.delivered,
              returned |-> <<[finalImage |-> finalImage, broken |-> broken,
                              render |-> c]>>]
    /\ lastOp' = "saveSettled"
    /\ UNCHANGED <<initialElements, elements, selectedIds, bgVars, histVars,
                   gestureVars, refVars, asyncVars>>

---------------------------------------------------------------------------
(* The history specification: edits, undo and redo up to the retention limit *)

Counted(isEdit, isUndo) ==
    run' = [edits |-> IF isEdit THEN run.edits + 1 ELSE run.edits,
            undos |-> IF isUndo THEN run.undos + 1 ELSE run.undos,
            straight |-> /\ run.straight
                         /\ (isEdit => run.undos = 0)
                         /\ (isEdit \/ isUndo)]

\* the render after a handler that the counters do not count / do count
Uncounted ==
    UNCHANGED <<run, now, drawn, apiKey, svc, studio, campaign, exporter, dom>> /\ KeyboardEffect

CountedAs(isEdit, isUndo) ==
    /\ Counted(isEdit, isUndo)
    /\ UNCHANGED <<now, drawn, apiKey, svc, studio, campaign, exporter, dom>>
    /\ KeyboardEffect

\* a step of duplicateSelected, which advances the random generator itself
CountedDuplicate ==
    /\ Counted(TRUE, FALSE)
    /\ UNCHANGED <<now, apiKey, svc, studio, campaign, exporter, dom>>
    /\ KeyboardEffect

\* a step of a handler that calls the service
WithService(isEdit) ==
    Counted(isEdit, FALSE) /\ UNCHANGED <<now, drawn, apiKey, campaign, exporter, dom>> /\ KeyboardEffect

\* a step of the export, which leaves the counters alone
Exporting ==
    UNCHANGED <<run, now, drawn, apiKey, svc, studio, campaign, dom>> /\ KeyboardEffect

HistoryNext ==
    \/ \E id \in {"brand-asset"} : LayerRowClick(id) /\ Uncounted
    \/ run.edits < DeepBudget /\ FlipButton /\ CountedAs(TRUE, FALSE)
    \/ run.undos < UndoBudget /\ undo /\ CountedAs(FALSE, TRUE)
    \/ redo /\ CountedAs(FALSE, FALSE)
    \/ run.undos < UndoBudget /\ KeyUndo /\ CountedAs(FALSE, TRUE)
    \/ KeyRedo /\ CountedAs(FALSE, FALSE)
    \/ run.edits < DeepBudget /\ KeyDelete /\ CountedAs(TRUE, FALSE)

SpecHistory == Init /\ [][HistoryNext]_vars

---------------------------------------------------------------------------
(* The editor specification: element edits, background controls, background *)
(* generation, undo and redo                                                *)

WheelDeltas == {-4500, 4500}

Next ==
    \/ \E id \in {"brand-asset"} : LayerRowClick(id) /\ Uncounted
    \/ ClearSelection /\ Uncounted
    \/ run.edits < EditBudget /\ FlipButton /\ CountedAs(TRUE, FALSE)
    \/ \E d \in WheelDeltas : handleCanvasWheel(d) /\ Uncounted
    \/ run.edits < EditBudget /\ GenerateBackgroundStart /\ Uncounted
    \/ GenerateBackgroundResolve("generated.png") /\ CountedAs(TRUE, FALSE)
    \/ GenerateBackgroundReject /\ Uncounted
    \/ undo /\ Uncounted
    \/ redo /\ Uncounted

Spec == Init /\ [][Next]_vars

---------------------------------------------------------------------------
(* The background specification: every control that changes the Scene *)

BackgroundNext ==
    \/ \E id \in {"brand-asset"} : LayerRowClick(id) /\ Uncounted
    \/ ClearSelection /\ Uncounted
    \/ run.edits < BackgroundBudget /\ FlipButton /\ CountedAs(TRUE, FALSE)
    \/ \E d \in WheelDeltas : handleCanvasWheel(d) /\ Uncounted
    \/ BgScaleSlider(20) /\ Uncounted
    \/ BgPanSlider("x", 50) /\ Uncounted
    \/ BgPanSlider("y", -30) /\ Uncounted
    \/ BgOpacitySlider(5) /\ Uncounted
    \/ ResetToColor /\ Uncounted
    \/ SetAsBG /\ Uncounted

SpecBackground == Init /\ [][BackgroundNext]_vars

---------------------------------------------------------------------------
(* The lock specification: selection, locking, the mutation actions and the *)
(* element gestures                                                         *)

ElementIds == {"brand-asset", "main-headline"}

\* pointer positions (client pixels) of the pointer events
PointerPositions == {<<0, 0>>, <<30, 60>>}

\* the editor is opened on the plan's elements, or on the layers a previous
\* session saved with the brand asset locked
LockLists ==
    { <<BrandAsset, MainHeadline>>,
      <<[SavedElement(BrandAsset) EXCEPT !.locked = TRUE], SavedElement(MainHeadline)>> }

LockInit == InitWith(LockLists)

Commits(h, h2) == h2 # h

\* the pointer's button is up: a press that started a gesture is followed by
\* its release (or by the pointer leaving, line 898) before the next press
PointerUp ==
    ~(potentialDrag \/ isDragging \/ isResizing \/ isRotating
        \/ isDraggingBg \/ isResizingBg)

\* the controls that take a click are used with the button up; a key needs no
\* pointer
LockNext ==
    \/ \E id \in ElementIds : PointerUp /\ LayerRowClick(id) /\ Uncounted
    \/ \E id \in ElementIds, a \in {"drag", "resize", "rotate"}, shift \in BOOLEAN :
          PointerUp /\ handleMouseDown(id, a, shift, 0, 0) /\ Uncounted
    \/ \E p \in PointerPositions : handleMouseMove(p[1], p[2], 45) /\ Uncounted
    \/ /\ (isDragging \/ isResizing \/ isRotating) => run.edits < LockBudget
       /\ handleMouseUp
       /\ CountedAs(Commits(history, history'), FALSE)
    \/ PointerUp /\ ClearSelection /\ Uncounted
    \/ run.edits < LockBudget /\ PointerUp /\ LockButton /\ CountedAs(TRUE, FALSE)
    \/ run.edits < LockBudget /\ PointerUp /\ TransparencySlider(5) /\ CountedAs(TRUE, FALSE)
    \/ run.edits < LockBudget /\ PointerUp /\ PositionXField(0) /\ CountedAs(TRUE, FALSE)
    \/ run.edits < LockBudget /\ PointerUp /\ DeleteButton /\ CountedAs(TRUE, FALSE)
    \/ run.edits < LockBudget /\ KeyDelete /\ CountedAs(TRUE, FALSE)
    \/ run.edits < LockBudget /\ PointerUp /\ AlignButton("left") /\ CountedAs(TRUE, FALSE)
    \/ run.edits < LockBudget /\ PointerUp /\ FlipButton /\ CountedAs(TRUE, FALSE)
    \/ run.edits < LockBudget /\ PointerUp /\ LayerOrderButton("front") /\ CountedAs(TRUE, FALSE)

SpecLock == LockInit /\ [][LockNext]_vars

---------------------------------------------------------------------------
(* The layer-order specification: the editor is opened on every list of     *)
(* three elements with zIndex drawn from ZValues (ties, zero and gaps)       *)

MainSub ==
    [PlanElement("main-sub", "text", "Subheadline", 20, 260, 560, 80, 20)
        EXCEPT !.style.fontSize = 24, !.style.color = "#e4e4e7"]

ZValues == {0, 20, 25}

WithZ(el, z) == [el EXCEPT !.style.zIndex = z]

ZLists ==
    { <<WithZ(BrandAsset, a), WithZ(MainHeadline, b), WithZ(MainSub, c)>> :
        a \in ZValues, b \in ZValues, c \in ZValues }

ZInit == InitWith(ZLists)

ZNext ==
    \/ \E id \in {"brand-asset", "main-headline", "main-sub"} :
          LayerRowClick(id) /\ Uncounted
    \/ \E t \in {"front", "back", "forward", "backward"} :
          run.edits < ZBudget /\ LayerOrderButton(t) /\ CountedAs(TRUE, FALSE)

SpecZ == ZInit /\ [][ZNext]_vars

---------------------------------------------------------------------------
(* The element list: adding, uploading, duplicating and deleting elements,   *)
(* with the history walked by the toolbar and by the keyboard.                *)

ListInit == InitWith({<<BrandAsset, MainHeadline>>})

ListNext ==
    \/ \E i \in 1..Len(elements) : LayerRowClick(elements[i].id) /\ Uncounted
    \/ run.edits < ListBudget /\ DuplicateButton /\ CountedDuplicate
    \/ \E t \in {<<"text", "heading">>, <<"shape", "square">>} :
          run.edits < ListBudget /\ addElement(t[1], t[2]) /\ CountedAs(TRUE, FALSE)
    \/ run.edits < ListBudget /\ pending = {} /\ UploadStart /\ Uncounted
    \/ UploadDecoded(800, 400) /\ CountedAs(TRUE, FALSE)
    \/ run.edits < ListBudget /\ DeleteButton /\ CountedAs(TRUE, FALSE)
    \/ undo /\ Uncounted
    \/ redo /\ Uncounted
    \/ now < ClockBound /\ Tick

SpecList == ListInit /\ [][ListNext]_vars

---------------------------------------------------------------------------
(* Duplicating: the floating menu's button and Ctrl/Cmd+D, between and during *)
(* drags.                                                                      *)

DuplicateNext ==
    \/ \E i \in 1..Len(elements) : PointerUp /\ LayerRowClick(elements[i].id) /\ Uncounted
    \/ \E id \in ElementIds, shift \in BOOLEAN :
          PointerUp /\ handleMouseDown(id, "drag", shift, 0, 0) /\ Uncounted
    \/ handleMouseMove(30, 60, 45) /\ Uncounted
    \/ /\ isDragging => run.edits < DuplicateBudget
       /\ handleMouseUp
       /\ CountedAs(Commits(history, history'), FALSE)
    \/ run.edits < DuplicateBudget /\ PointerUp /\ DuplicateButton /\ CountedDuplicate
    \/ run.edits < DuplicateBudget /\ KeyDuplicate /\ CountedDuplicate

SpecDuplicate == ListInit /\ [][DuplicateNext]_vars

---------------------------------------------------------------------------
(* The fill of text: the colour and gradient pickers of the text tools.       *)

FillInit == InitWith({<<MainHeadline, MainSub>>})

FillNext ==
    \/ \E id \in {"main-headline", "main-sub"} : LayerRowClick(id) /\ Uncounted
    \/ \E c \in COLORS :
          run.edits < FillBudget /\ ColorPicker(c) /\ CountedAs(TRUE, FALSE)
    \/ \E g \in GRADIENTS :
          run.edits < FillBudget /\ GradientPicker(g) /\ CountedAs(TRUE, FALSE)
    \/ undo /\ Uncounted
    \/ redo /\ Uncounted

SpecFill == FillInit /\ [][FillNext]_vars

---------------------------------------------------------------------------
(* The pointer gestures on the elements and on the background image.          *)

GestureNext ==
    \/ \E id \in ElementIds, a \in {"drag", "resize", "rotate"} :
          PointerUp /\ handleMouseDown(id, a, FALSE, 0, 0) /\ Uncounted
    \/ \E type \in {"drag", "resize"} :
          PointerUp /\ handleBgMouseDown(type, 0, 0) /\ Uncounted
    \/ \E p \in PointerPositions : handleMouseMove(p[1], p[2], 45) /\ Uncounted
    \/ /\ (isDragging \/ isResizing \/ isRotating \/ isDraggingBg \/ isResizingBg)
             => run.edits < GestureBudget
       /\ handleMouseUp
       /\ CountedAs(Commits(history, history'), FALSE)
    \/ PointerUp /\ ClearSelection /\ Uncounted

SpecGesture == ListInit /\ [][GestureNext]_vars

---------------------------------------------------------------------------
(* The image service and its callers, with and without an API key.            *)

ReferenceImages == {<<>>, <<"background.png", "asset.png">>}

ServiceSpecInit ==
    /\ EditorInit({<<BrandAsset, MainHeadline>>})
    /\ ServiceInit
    /\ apiKey \in BOOLEAN

ServiceNext ==
    \/ \E p \in Prompts, ratio \in {"1:1", "4:5"}, refs \in ReferenceImages :
          GenerateImageCall(p, ratio, refs)
    \/ \E resp \in Responses : GenerateImageResponse(resp)
    \/ handleFileUpload("data:image/png;base64,upload")
    \/ \E p \in {<<>>, PromptDusk} : StudioPrompt(p)
    \/ handleUndo
    \/ Len(studio.history) <= ServiceBudget /\ handleEdit
    \/ \E resp \in Responses : handleEditSettled(resp)
    \/ LayerRowClick("brand-asset") /\ Uncounted
    \/ ClearSelection /\ Uncounted
    \/ run.edits < ServiceBudget /\ handleMagicEdit(PromptDusk) /\ WithService(FALSE)
    \/ \E resp \in Responses :
          handleMagicEditSettled(resp) /\ WithService(Commits(history, history'))

SpecService == ServiceSpecInit /\ [][ServiceNext]_vars

---------------------------------------------------------------------------
(* The campaign planner: generateBannerPlan (src/unnamed/part_000) and the   *)
(* handlers of CopyGenerator.tsx. The text of a response is a sequence of    *)
(* tokens: an opening code fence, a closing code fence, a line break, a     *)
(* JSON value or prose. A JSON value is the set of top-level keys it has     *)
(* and the image prompts it carries.                                          *)

PlanKeys == {"main_banner", "additional_banners", "seo"}

PlanData(present, mainPrompt, slidePrompts) ==
    [keys |-> present, main_prompt |-> mainPrompt, slide_prompts |-> slidePrompts]

Token(kind, data) == [kind |-> kind, data |-> data]

Fence == Token("fence json", PlanData({}, <<>>, <<>>))

FenceEnd == Token("fence", PlanData({}, <<>>, <<>>))

LineBreak == Token("line break", PlanData({}, <<>>, <<>>))

Prose == Token("prose", PlanData({}, <<>>, <<>>))

Json(data) == Token("json", data)

\* line 172: replace(...) removes an opening fence with the line break after
\* it and a closing fence with the line break before it
RECURSIVE StripFences(_)
StripFences(text) ==
    IF text = <<>> THEN <<>>
    ELSE IF text[1].kind = "fence json"
    THEN IF Len(text) >= 2 /\ text[2].kind = "line break"
         THEN StripFences(SubSeq(text, 3, Len(text)))
         ELSE StripFences(Tail(text))
    ELSE IF text[1].kind = "line break" /\ Len(text) >= 2 /\ text[2].kind = "fence"
    THEN StripFences(SubSeq(text, 3, Len(text)))
    ELSE IF text[1].kind = "fence"
    THEN StripFences(Tail(text))
    ELSE <<text[1]>> \o StripFences(Tail(text))

\* line 172: String.prototype.trim
RECURSIVE Trim(_)
Trim(text) ==
    IF text = <<>> THEN <<>>
    ELSE IF text[1].kind = "line break" THEN Trim(Tail(text))
    ELSE IF text[Len(text)].kind = "line break" THEN Trim(SubSeq(text, 1, Len(text) - 1))
    ELSE text

\* line 173: JSON.parse accepts one value with white space around it
JsonParses(text) ==
    LET values == SelectSeq(text, LAMBDA t : t.kind # "line break")
    IN  Len(values) = 1 /\ values[1].kind = "json"

JsonParse(text) == SelectSeq(text, LAMBDA t : t.kind # "line break")[1].data

\* lines 111-183: generateBannerPlan once the request has been answered; a
\* response is the text it carries, or the request throws
generateBannerPlan(response) ==
    LET jsonText == Trim(StripFences(response.text))
    IN  IF ~apiKey
        THEN [ok |-> FALSE, data |-> PlanData({}, <<>>, <<>>),
              error |-> "Missing Gemini API key"]
        ELSE IF response.throws
        THEN [ok |-> FALSE, data |-> PlanData({}, <<>>, <<>>),
              error |-> "request failed"]
        ELSE IF response.text = <<>>
        THEN [ok |-> FALSE, data |-> PlanData({}, <<>>, <<>>),
              error |-> "No text returned from Gemini"]
        ELSE IF JsonParses(jsonText)
        THEN [ok |-> TRUE, data |-> JsonParse(jsonText), error |-> ""]
        ELSE [ok |-> FALSE, data |-> PlanData({}, <<>>, <<>>),
              error |-> "Invalid JSON response from AI"]

\* generateBannerPlan checking the parsed value against the response schema
generateBannerPlanValidated(response) ==
    LET jsonText == Trim(StripFences(response.text))
    IN  IF ~apiKey
        THEN [ok |-> FALSE, data |-> PlanData({}, <<>>, <<>>),
              error |-> "Missing Gemini API key"]
        ELSE IF response.throws
        THEN [ok |-> FALSE, data |-> PlanData({}, <<>>, <<>>),
              error |-> "request failed"]
        ELSE IF response.text = <<>>
        THEN [ok |-> FALSE, data |-> PlanData({}, <<>>, <<>>),
              error |-> "No text returned from Gemini"]
        ELSE IF JsonParses(jsonText) /\ JsonParse(jsonText).keys = PlanKeys
        THEN [ok |-> TRUE, data |-> JsonParse(jsonText), error |-> ""]
        ELSE [ok |-> FALSE, data |-> PlanData({}, <<>>, <<>>),
              error |-> "Invalid JSON response from AI"]

\* the responses explored: the plan bare and fenced, a plan whose main banner
\* has no image prompt, three fenced blocks, a value that lacks a required key, prose,
\* an empty text, and a request that throws
FullPlan == PlanData(PlanKeys, PromptDusk, <<PromptDusk>>)

Answer(text) == [throws |-> FALSE, text |-> text]

PlanResponses ==
    { Answer(<<Json(FullPlan)>>),
      Answer(<<Fence, LineBreak, Json(FullPlan), LineBreak, FenceEnd>>),
      Answer(<<Json(PlanData(PlanKeys, <<>>, <<PromptDusk>>))>>),
      Answer(<<Fence, LineBreak, Json(PlanData({"main_banner"}, PromptDusk, <<>>)),
               LineBreak, FenceEnd, LineBreak,
               Fence, LineBreak, Json(PlanData({"additional_banners"}, <<>>, <<PromptDusk>>)),
               LineBreak, FenceEnd, LineBreak,
               Fence, LineBreak, Json(PlanData({"seo"}, <<>>, <<>>)),
               LineBreak, FenceEnd>>),
      Answer(<<Json(PlanData({"main_banner", "seo"}, PromptDusk, <<>>))>>),
      Answer(<<Fence, LineBreak, Json(PlanData({"additional_banners", "seo"}, <<>>, <<PromptDusk>>)),
               LineBreak, FenceEnd>>),
      Answer(<<Prose>>),
      Answer(<<>>),
      [throws |-> TRUE, text |-> <<>>] }

\* CopyGenerator.tsx lines 426, 447, 471-479: the form fields
setUserPrompt(value) ==
    /\ campaign' = [campaign EXCEPT !.userPrompt = value]
    /\ EditorUnchanged
    /\ UNCHANGED <<apiKey, svc, studio>>

setAspectRatio(ratio) ==
    /\ campaign' = [campaign EXCEPT !.aspectRatio = ratio]
    /\ EditorUnchanged
    /\ UNCHANGED <<apiKey, svc, studio>>

setBackgroundImage(val) ==
    /\ campaign' = [campaign EXCEPT !.backgroundImage = val]
    /\ EditorUnchanged
    /\ UNCHANGED <<apiKey, svc, studio>>

setAssetImage(val) ==
    /\ campaign' = [campaign EXCEPT !.assetImage = val]
    /\ EditorUnchanged
    /\ UNCHANGED <<apiKey, svc, studio>>

\* lines 104, 111, 639: the slot of the slide at index idx
SlotOf(idx) == "slide-" \o ToString(idx)

\* triggerImageGeneration storing a map that holds nothing but its own slot
TriggerSettledReplacing(cmp, flight) ==
    LET done == [cmp EXCEPT !.generatingStatus = [s \in Slots |-> FALSE],
                            !.flights = cmp.flights \ {flight}]
    IN  IF flight.call.outcome = "resolved"
        THEN [done EXCEPT !.generatedImages =
                              [s \in Slots |-> IF s = flight.id THEN flight.call.value
                                               ELSE "undefined"],
                          !.wrote[flight.id] = flight.serial]
        ELSE [done EXCEPT !.generationErrors =
                              [s \in Slots |-> s = flight.id]]

\* lines 127-135: triggerImageGeneration after generateImage has settled
TriggerSettled(cmp, flight) ==
    LET done == [cmp EXCEPT !.generatingStatus[flight.id] = FALSE,
                            !.flights = cmp.flights \ {flight}]
    IN  IF flight.call.outcome = "resolved"
        THEN [done EXCEPT !.generatedImages[flight.id] = flight.call.value,
                          !.wrote[flight.id] = flight.serial]
        ELSE [done EXCEPT !.generationErrors[flight.id] = TRUE]

\* the arguments of the call of triggerImageGeneration a flight stands for
RequestParameters(flight) ==
    [id |-> flight.id, prompt |-> flight.call.prompt,
     aspectRatio |-> flight.call.aspectRatio,
     referenceImages |-> flight.call.hints]

\* lines 123-127: triggerImageGeneration up to its await; a call of
\* generateImage that sends no request settles in the same turn
triggerImageGeneration(cmp, id, prompt, ratio, refImages) ==
    LET flight == [serial |-> cmp.issued + 1, id |-> id,
                   call |-> generateImageFrom(prompt, ratio, refImages)]
        started == [cmp EXCEPT !.generatingStatus[id] = TRUE,
                               !.generationErrors[id] = FALSE,
                               !.issued = cmp.issued + 1,
                               !.latest[id] = cmp.issued + 1,
                               !.asked[id] = <<RequestParameters(flight)>>,
                               !.flights = cmp.flights \cup {flight}]
    IN  IF flight.call.outcome = "pending" THEN started
        ELSE TriggerSettled(started, flight)

\* lines 90-92, 389-392: the reference images of a render
RefsOf(c) ==
    (IF c.backgroundImage # "" THEN <<c.backgroundImage>> ELSE <<>>)
      \o (IF c.assetImage # "" THEN <<c.assetImage>> ELSE <<>>)

\* lines 99-102: the uploaded background becomes the image of every slide
RECURSIVE UseBackground(_, _, _, _)
UseBackground(cmp, slides, idx, image) ==
    IF idx >= Len(slides) THEN cmp
    ELSE UseBackground([cmp EXCEPT !.generatedImages[SlotOf(idx)] = image],
                       slides, idx + 1, image)

\* lines 109-113: a generation is triggered for every slide with a prompt
RECURSIVE TriggerSlides(_, _, _, _, _)
TriggerSlides(cmp, slides, idx, ratio, refs) ==
    IF idx >= Len(slides) THEN cmp
    ELSE TriggerSlides(IF slides[idx + 1] # <<>>
                       THEN triggerImageGeneration(cmp, SlotOf(idx), slides[idx + 1],
                                                   ratio, refs)
                       ELSE cmp,
                       slides, idx + 1, ratio, refs)

\* lines 115-119: the catch block of handleSubmit
SubmitFailed(cmp) ==
    [cmp EXCEPT !.alert = "Failed to generate banner plan. Please try again.",
                !.isPlanning = FALSE]

\* lines 87-119: handleSubmit after its await, in the render c it closed
\* over. Reading a property of a key the plan lacks throws a TypeError, which
\* the catch block receives after the statements before it have run.
handleSubmitAfter(cmp, c, result) ==
    LET data == result.data
        accepted == [cmp EXCEPT !.plan = <<data>>, !.isPlanning = FALSE,
                                !.planning = cmp.planning \ {c}]
        withMain == [accepted EXCEPT !.generatedImages["main"] = c.backgroundImage]
        triggered ==
            IF data.main_prompt # <<>>
            THEN triggerImageGeneration(accepted, "main", data.main_prompt,
                                        c.aspectRatio, RefsOf(c))
            ELSE accepted
    IN  IF ~result.ok
        THEN SubmitFailed([cmp EXCEPT !.planning = cmp.planning \ {c}])
        ELSE IF c.backgroundImage # ""
        THEN IF "additional_banners" \in data.keys
             THEN UseBackground(withMain, data.slide_prompts, 0, c.backgroundImage)
             ELSE SubmitFailed(withMain)
        ELSE IF "main_banner" \notin data.keys
        THEN SubmitFailed(accepted)
        ELSE IF "additional_banners" \in data.keys
        THEN TriggerSlides(triggered, data.slide_prompts, 0, c.aspectRatio, RefsOf(c))
        ELSE SubmitFailed(triggered)

\* lines 66-86: handleSubmit up to its await; the submit button is disabled
\* while isPlanning (line 525, Button.tsx line 28)
handleSubmit ==
    /\ ~campaign.isPlanning
    /\ campaign.userPrompt # ""
    /\ campaign' =
         [campaign EXCEPT
            !.isPlanning = TRUE, !.plan = <<>>,
            !.generatedImages = [s \in Slots |-> "undefined"],
            !.generatingStatus = [s \in Slots |-> FALSE],
            !.generationErrors = [s \in Slots |-> FALSE],
            !.wrote = [s \in Slots |-> 0],
            !.asked = [s \in Slots |-> <<>>],
            !.submitted = campaign.submitted + 1,
            !.planning = campaign.planning \cup
                {[userPrompt |-> campaign.userPrompt,
                  aspectRatio |-> campaign.aspectRatio,
                  backgroundImage |-> campaign.backgroundImage,
                  assetImage |-> campaign.assetImage]}]
    /\ EditorUnchanged
    /\ UNCHANGED <<apiKey, svc, studio>>

\* generateBannerPlan settles and handleSubmit resumes
handleSubmitSettled(response) ==
    /\ \E c \in campaign.planning :
          campaign' = handleSubmitAfter(campaign, c, generateBannerPlan(response))
    /\ EditorUnchanged
    /\ UNCHANGED <<apiKey, svc, studio>>

\* the response to the outstanding request of a slot's generateImage call
\* arrives, and triggerImageGeneration resumes when the call has settled
GenerationAnswered(flight, resp) ==
    /\ flight \in campaign.flights
    /\ LET heard == [flight EXCEPT !.call = generateImageAfter(flight.call, resp)]
       IN  campaign' =
             IF heard.call.outcome = "pending"
             THEN [campaign EXCEPT !.flights = (campaign.flights \ {flight}) \cup {heard}]
             ELSE TriggerSettled([campaign EXCEPT
                                    !.flights = (campaign.flights \ {flight}) \cup {heard}],
                                 heard)
    /\ EditorUnchanged
    /\ UNCHANGED <<apiKey, svc, studio>>

\* lines 594, 661: the prompt the plan on screen holds for a slot
PromptOfSlot(data, id) ==
    IF id = "main" THEN data.main_prompt
    ELSE data.slide_prompts[1 + CHOOSE idx \in 0..(Len(data.slide_prompts) - 1) :
                                    SlotOf(idx) = id]

\* lines 587-602, 654-668: the retry button of a slot is on screen
RetryShown(id) ==
    /\ campaign.plan # <<>>
    /\ campaign.plan[1].keys = PlanKeys
    /\ \/ id = "main"
       \/ \E idx \in 0..(Len(campaign.plan[1].slide_prompts) - 1) : SlotOf(idx) = id
    /\ campaign.generatedImages[id] \in {"undefined", ""}
    /\ ~campaign.generatingStatus[id]
    /\ campaign.generationErrors[id]

\* lines 389-394: getRetryProps builds the call from the render it runs in
getRetryProps(id) ==
    /\ RetryShown(id)
    /\ campaign' = triggerImageGeneration(campaign, id,
                                          PromptOfSlot(campaign.plan[1], id),
                                          campaign.aspectRatio, RefsOf(campaign))
    /\ EditorUnchanged
    /\ UNCHANGED <<apiKey, svc, studio>>

---------------------------------------------------------------------------
(* The planner: one campaign form, every kind of plan response.              *)

\* submissions explored by the planner specification
PlanBudget == 1

\* the responses a slot's generation request may get
SlotResponses == {"image", "exception"}

CampaignInit ==
    /\ EditorInit({<<BrandAsset, MainHeadline>>})
    /\ ServiceInit
    /\ apiKey \in BOOLEAN

PlanNext ==
    \/ setUserPrompt("cozy coffee shop sale")
    \/ \E ratio \in {"1:1", "4:5"} : setAspectRatio(ratio)
    \/ \E val \in {"", "background.png"} : setBackgroundImage(val)
    \/ campaign.submitted < PlanBudget /\ handleSubmit
    \/ \E response \in PlanResponses : handleSubmitSettled(response)
    \/ \E flight \in campaign.flights, resp \in SlotResponses :
          GenerationAnswered(flight, resp)

SpecPlan == CampaignInit /\ [][PlanNext]_vars

---------------------------------------------------------------------------
(* The slots: the form is submitted again while images are awaited, and      *)
(* failed slots are retried.                                                  *)

\* submissions and calls of triggerImageGeneration explored
SubmitBudget == 2

IssueBudget == 5

SlotsInit ==
    /\ EditorInit({<<BrandAsset, MainHeadline>>})
    /\ ServiceInit
    /\ apiKey = TRUE

SlotsNext ==
    \/ setUserPrompt("cozy coffee shop sale")
    \/ campaign.submitted < SubmitBudget /\ handleSubmit
    \/ \E response \in {Answer(<<Json(FullPlan)>>), [throws |-> TRUE, text |-> <<>>]} :
          handleSubmitSettled(response)
    \/ \E flight \in campaign.flights, resp \in SlotResponses :
          GenerationAnswered(flight, resp)
    \/ \E id \in Slots : campaign.issued < IssueBudget /\ getRetryProps(id)

SpecSlots == SlotsInit /\ [][SlotsNext]_vars

---------------------------------------------------------------------------
(* The retry: one submission, the form changed while the images are awaited  *)
(* and after they failed.                                                     *)

\* calls of triggerImageGeneration explored
RetryBudget == 4

RetryNext ==
    \/ setUserPrompt("cozy coffee shop sale")
    \/ \E ratio \in {"1:1", "4:5"} : setAspectRatio(ratio)
    \/ \E val \in {"", "asset.png"} : setAssetImage(val)
    \/ \E val \in {"", "background.png"} : setBackgroundImage(val)
    \/ campaign.submitted < 1 /\ handleSubmit
    \/ handleSubmitSettled(Answer(<<Json(FullPlan)>>))
    \/ \E flight \in campaign.flights, resp \in SlotResponses :
          GenerationAnswered(flight, resp)
    \/ \E id \in Slots : campaign.issued < RetryBudget /\ getRetryProps(id)

SpecRetry == SlotsInit /\ [][RetryNext]_vars

---------------------------------------------------------------------------
(* The export, between edits of the layer order and of the background.       *)

\* exports and edits explored
SaveBudget == 2

ExportNext ==
    \/ LayerRowClick("brand-asset") /\ Uncounted
    \/ ClearSelection /\ Uncounted
    \/ run.edits < SaveBudget - 1 /\ LayerOrderButton("back") /\ CountedAs(TRUE, FALSE)
    \/ ResetToColor /\ Uncounted
    \/ exporter.started < SaveBudget /\ handleSave /\ Exporting
    \/ \E k \in 1..Len(exporter.runs), broken \in SUBSET {"bg.png", "asset.png"} :
          handleSaveSettled(k, broken) /\ Exporting

SpecExport == ListInit /\ [][ExportNext]_vars

\* every image source of an export under way reports loaded or failed in the
\* end, and the export resumes
SourcesReport ==
    \E k \in 1..Len(exporter.runs), broken \in SUBSET {"bg.png", "asset.png"} :
        handleSaveSettled(k, broken) /\ Exporting

\* saves of an image and of a colour background, one started before the
\* other has returned
SaveNext ==
    \/ ResetToColor /\ Uncounted
    \/ BgOpacitySlider(5) /\ Uncounted
    \/ exporter.started < SaveBudget /\ handleSave /\ Exporting
    \/ SourcesReport

SpecSave == ListInit /\ [][SaveNext]_vars /\ WF_vars(SourcesReport)

---------------------------------------------------------------------------
(* The AI handlers of the editor: background generation and Magic Edit,      *)
(* between edits, with and without an API key.                                *)

\* edits and requests explored
AssistBudget == 2

AssistInit ==
    /\ EditorInit({<<BrandAsset, MainHeadline>>})
    /\ ServiceInit
    /\ apiKey \in BOOLEAN

AssistNext ==
    \/ \E i \in 1..Len(elements) : LayerRowClick(elements[i].id) /\ Uncounted
    \/ ClearSelection /\ Uncounted
    \/ run.edits < AssistBudget /\ FlipButton /\ CountedAs(TRUE, FALSE)
    \/ undo /\ Uncounted
    \/ run.edits < AssistBudget /\ GenerateBackgroundStart /\ Uncounted
    \/ GenerateBackgroundResolve("generated.png") /\ CountedAs(TRUE, FALSE)
    \/ GenerateBackgroundReject /\ Uncounted
    \/ run.edits < AssistBudget /\ handleMagicEdit(PromptDusk) /\ WithService(FALSE)
    \/ \E resp \in Responses :
          handleMagicEditSettled(resp) /\ WithService(Commits(history, history'))

SpecAssist == AssistInit /\ [][AssistNext]_vars

---------------------------------------------------------------------------
(* Text editing: presses and releases on the elements, typing and the        *)
(* blur of the edited text.                                                   *)

\* commits explored
TextBudget == 2

\* a step that moves the focus or delivers a blur
InText(isEdit) ==
    /\ Counted(isEdit, FALSE)
    /\ UNCHANGED <<now, drawn, apiKey, svc, studio, campaign, exporter>>
    /\ KeyboardEffect

TextNext ==
    \/ \E id \in ElementIds, shift \in BOOLEAN :
          /\ NoBlurDue /\ PointerUp
          /\ ElementPress(id, "drag", shift, 0, 0)
          /\ InText(FALSE)
    \/ \E p \in {<<1, 1>>, <<30, 60>>} :
          NoBlurDue /\ handleMouseMove(p[1], p[2], 45) /\ Uncounted
    \/ /\ NoBlurDue
       /\ isDragging => run.edits < TextBudget
       /\ handleMouseUp
       /\ CountedAs(Commits(history, history'), FALSE)
    \/ NoBlurDue /\ TypeText("Sale") /\ InText(FALSE)
    \/ NoBlurDue /\ FocusLeaves /\ InText(FALSE)
    \/ run.edits < TextBudget /\ onBlur /\ InText(TRUE)

SpecText == ListInit /\ [][TextNext]_vars

---------------------------------------------------------------------------
(* The background scale: wheel, resize gesture, slider, generation, undo and *)
(* redo, from the smallest scale, until a layer is selected.                  *)

\* commits explored
ScaleBudget == 1

\* client pixels the pointer moves up during a background resize: more than
\* the 450 that take the scale from one end of its range to the other
ScaleReach == 460

ScaleInit ==
    /\ EditorInitAt({<<BrandAsset, MainHeadline>>}, {5})
    /\ ServiceInit
    /\ apiKey = TRUE

ScaleNext ==
    \/ PointerUp /\ LayerRowClick("brand-asset") /\ Uncounted
    \/ \E d \in WheelDeltas : handleCanvasWheel(d) /\ Uncounted
    \/ PointerUp /\ BgScaleSlider(10) /\ Uncounted
    \/ PointerUp /\ ResetToColor /\ Uncounted
    \/ PointerUp /\ handleBgMouseDown("drag", 0, 0) /\ Uncounted
    \/ PointerUp /\ handleBgMouseDown("resize", 0, ScaleReach) /\ Uncounted
    \/ handleMouseMove(0, 0, 45) /\ Uncounted
    \/ /\ (isDraggingBg \/ isResizingBg) => run.edits < ScaleBudget
       /\ handleMouseUp
       /\ CountedAs(Commits(history, history'), FALSE)
    \/ run.edits < ScaleBudget /\ PointerUp /\ GenerateBackgroundStart /\ Uncounted
    \/ GenerateBackgroundResolve("generated.png") /\ CountedAs(TRUE, FALSE)
    \/ PointerUp /\ undo /\ Uncounted
    \/ PointerUp /\ redo /\ Uncounted

SpecScale == ScaleInit /\ [][ScaleNext]_vars

---------------------------------------------------------------------------
(* Rotation: the rotate handle of either element, pointer angles on both     *)
(* sides of a multiple of 45 degrees.                                         *)

\* commits explored
RotateBudget == 1

\* Math.atan2 of the pointer about the centre, in whole degrees: plus 90 they
\* are -47, -43, 20, 43, 47, 90, 135 and 270
RotateAngles == {-137, -133, -70, -47, -43, 0, 45, 180}

RotateNext ==
    \/ \E id \in ElementIds : PointerUp /\ LayerRowClick(id) /\ Uncounted
    \/ \E id \in ElementIds :
          PointerUp /\ handleMouseDown(id, "rotate", FALSE, 0, 0) /\ Uncounted
    \/ \E a \in RotateAngles : handleMouseMove(0, 0, a) /\ Uncounted
    \/ /\ isRotating => run.edits < RotateBudget
       /\ handleMouseUp
       /\ CountedAs(Commits(history, history'), FALSE)
    \/ PointerUp /\ undo /\ Uncounted

SpecRotate == ListInit /\ [][RotateNext]_vars

---------------------------------------------------------------------------
(* The keyboard and the focus: clicks on the elements, the text inputs of    *)
(* the panels, Delete / Backspace and Ctrl/Cmd+D.                            *)

\* commits explored
KeysBudget == 2

KeysNext ==
    \/ \E id \in ElementIds :
          /\ NoBlurDue /\ PointerUp
          /\ ElementPress(id, "drag", FALSE, 0, 0)
          /\ InText(FALSE)
    \/ /\ NoBlurDue
       /\ handleMouseUp
       /\ CountedAs(Commits(history, history'), FALSE)
    \/ \E field \in Fields : NoBlurDue /\ PointerUp /\ FocusField(field) /\ InText(FALSE)
    \/ NoBlurDue /\ PointerUp /\ FocusLeaves /\ InText(FALSE)
    \/ run.edits < KeysBudget /\ onBlur /\ InText(TRUE)
    \/ NoBlurDue /\ run.edits < KeysBudget /\ KeyDelete /\ CountedAs(TRUE, FALSE)
    \/ NoBlurDue /\ run.edits < KeysBudget /\ KeyDuplicate /\ CountedDuplicate

SpecKeys == ListInit /\ [][KeysNext]_vars

---------------------------------------------------------------------------
(* Magic Edit on an image element while the Layers list selects and the      *)
(* floating menu deletes.                                                     *)

\* commits explored
MagicBudget == 2

MagicNext ==
    \/ \E i \in 1..Len(elements) : LayerRowClick(elements[i].id) /\ Uncounted
    \/ run.edits < MagicBudget /\ DeleteButton /\ CountedAs(TRUE, FALSE)
    \/ run.edits < MagicBudget /\ handleMagicEdit(PromptDusk) /\ WithService(FALSE)
    \/ \E resp \in Responses :
          handleMagicEditSettled(resp) /\ WithService(Commits(history, history'))
    \/ undo /\ Uncounted

SpecMagic == AssistInit /\ [][MagicNext]_vars

---------------------------------------------------------------------------
(* The Layers list: rows are clicked, shift-clicks on the canvas extend the  *)
(* selection, and the rows' delete buttons are pressed.                       *)

\* commits explored
LayersBudget == 2

LayersNext ==
    \/ \E id \in ElementIds : PointerUp /\ LayerRowClick(id) /\ Uncounted
    \/ PointerUp /\ ClearSelection /\ Uncounted
    \/ \E id \in ElementIds :
          PointerUp /\ handleMouseDown(id, "drag", TRUE, 0, 0) /\ Uncounted
    \/ handleMouseUp /\ CountedAs(Commits(history, history'), FALSE)
    \/ \E id \in ElementIds :
          /\ run.edits < LayersBudget /\ PointerUp
          /\ LayerRowDelete(id)
          /\ CountedAs(TRUE, FALSE)
    \/ PointerUp /\ undo /\ Uncounted

SpecLayers == ListInit /\ [][LayersNext]_vars

---------------------------------------------------------------------------
(* Claims on the history *)

\* the Scene the editor shows when it opens
InitialScene ==
    [elements |-> Normalised(initialElements), bgValue |-> "bg.png",
     bgType |-> "image", bgOpacity |-> 10, bgScale |-> 10, bgX |-> 0, bgY |-> 0]

\* C1: after N committed edits (N <= 20) on a freshly opened editor followed by
\* N invocations of undo, the live Scene is deeply equal to the initial Scene.
C1_UndoAllRestoresInitial ==
    (run.straight /\ run.edits <= 20 /\ run.undos = run.edits /\ lastOp = "undo")
        => Scene = InitialScene

\* C4: the history holds 1..20 entries and 0 <= historyIndex <= length - 1 in
\* every state; an append to a history of 20 entries whose cursor is on the
\* last one evicts exactly the oldest entry and leaves the cursor on the new,
\* last entry.
C4_Bounded ==
    /\ Len(history) >= 1
    /\ Len(history) <= 20
    /\ historyIndex >= 0
    /\ historyIndex <= Len(history) - 1

C4_EvictsOldest ==
    (Len(history) = 20 /\ historyIndex = 19 /\ history' # history)
        => /\ Len(history') = 20
           /\ SubSeq(history', 1, 19) = Tail(history)
           /\ historyIndex' = 19

C4_HistoryBoundedAndEvicts == []C4_Bounded /\ [][C4_EvictsOldest]_vars

\* C5: undo / redo move the cursor by exactly one and load the snapshot at the
\* new cursor; undo at cursor 0 and redo at the last entry change nothing; and
\* undo and redo leave every history entry as it was.
C5_UndoStep ==
    lastOp' = "undo" =>
        IF historyIndex > 0
        THEN /\ historyIndex' = historyIndex - 1
             /\ Scene' = history[historyIndex' + 1]
             /\ history' = history
        ELSE /\ Scene' = Scene /\ history' = history /\ historyIndex' = historyIndex

C5_RedoStep ==
    lastOp' = "redo" =>
        IF historyIndex < Len(history) - 1
        THEN /\ historyIndex' = historyIndex + 1
             /\ Scene' = history[historyIndex' + 1]
             /\ history' = history
        ELSE /\ Scene' = Scene /\ history' = history /\ historyIndex' = historyIndex

C5_UndoRedoFrame == [][C5_UndoStep /\ C5_RedoStep]_vars

\* C2: in every state where undo is possible, undo immediately followed by
\* redo leaves the live Scene (elements and every background field) equal to
\* the Scene that was live before the undo.
C2_UndoThenRedoRestores ==
    historyIndex > 0 =>
        LET u == UndoResult(history, historyIndex, Scene)
            r == RedoResult(history, u.historyIndex, u.scene)
        IN  r.scene = Scene

\* C3: a committed edit made while the cursor is behind the last entry keeps
\* exactly the entries up to and including the cursor and appends the new one;
\* right after it the cursor is on the last entry and redo changes nothing, so
\* no entry that was ahead of the cursor remains to be restored.
C3_EditStep ==
    (historyIndex < Len(history) - 1 /\ history' # history) =>
        /\ SubSeq(history', 1, Len(history') - 1) = SubSeq(history, 1, historyIndex + 1)
        /\ historyIndex' = Len(history') - 1
        /\ RedoResult(history', historyIndex', Scene').scene = Scene'

C3_EditAfterUndoTruncates == [][C3_EditStep]_vars

---------------------------------------------------------------------------
(* Claims on committing *)

\* C6: every operation that changes the persisted Scene (the element list or
\* a background field) appends exactly one history entry, which records the
\* Scene as it is after the operation.
C6_ChangeStep ==
    Scene' # Scene =>
        /\ Len(history') >= 2
        /\ history'[Len(history')] = Scene'
        /\ LET kept == SubSeq(history, 1, historyIndex + 1)
               front == SubSeq(history', 1, Len(history') - 1)
           IN  front = kept \/ front = Tail(kept)
        /\ historyIndex' = Len(history') - 1

C6_EveryChangeCommitsOnce == [][C6_ChangeStep]_vars

---------------------------------------------------------------------------
(* Claims on locked elements *)

\* every selected element is locked (and at least one element is selected)
AllTargetsLocked ==
    /\ \E i \in 1..Len(elements) : IsSelected(elements[i])
    /\ \A i \in 1..Len(elements) : IsSelected(elements[i]) => elements[i].locked

\* C7: when every element targeted by updateSelected, deleteSelected,
\* alignToPage, flip or changeZIndex is locked, the operation is a no-op: the
\* element list, the history and the cursor are unchanged.
C7_RejectStep ==
    (/\ AllTargetsLocked
     /\ lastOp' \in {"updateSelected", "deleteSelected", "alignToPage", "flip",
                     "front", "back", "forward", "backward"})
        => /\ elements' = elements
           /\ history' = history
           /\ historyIndex' = historyIndex

C7_AllLockedIsNoOp == [][C7_RejectStep]_vars

\* x, y, width, height, rotation, scale and style of a agree with those of b
SameGeometryAndStyle(a, b) ==
    /\ a.x = b.x /\ a.y = b.y /\ a.width = b.width /\ a.height = b.height
    /\ a.rotation = b.rotation /\ a.scaleX = b.scaleX /\ a.scaleY = b.scaleY
    /\ a.style = b.style

\* C8: under selection changes, lock toggles, updateSelected and the
\* drag / resize / rotate gestures, an element whose locked flag is true keeps
\* its x, y, width, height, rotation, scale and style, also as a member of a
\* multi-selection.
C8_LockedStep ==
    lastOp' \in {"select", "toggleLock", "updateSelected", "mouseDown",
                 "mouseDownIgnored", "mouseMove", "mouseUp"} =>
        \A i \in 1..Len(elements) :
            elements[i].locked =>
                /\ i \in 1..Len(elements')
                /\ elements'[i].id = elements[i].id
                /\ SameGeometryAndStyle(elements'[i], elements[i])

C8_LockedKeepsGeometry == [][C8_LockedStep]_vars

\* C9: a locked element of the selection is not removed by deleteSelected, not
\* repositioned by alignToPage and not mirrored by flip.
C9_LockedSelectedStep ==
    lastOp' \in {"deleteSelected", "alignToPage", "flip"} =>
        \A i \in 1..Len(elements) :
            (elements[i].locked /\ IsSelected(elements[i])) =>
                \E j \in 1..Len(elements') : elements'[j] = elements[i]

C9_LockedSelectedIsKept == [][C9_LockedSelectedStep]_vars

---------------------------------------------------------------------------
(* Claims on the layer order *)

\* the ids of the elements other than id, in paint order
OthersPaintOrder(els, id) == SelectSeq(PaintOrder(els), LAMBDA other : other # id)

\* C10: whatever the prior zIndex values (ties, zero, gaps), changeZIndex('front')
\* gives the selected element a zIndex strictly greater than every other
\* element's, changeZIndex('back') one strictly smaller than every other
\* element's, and the other elements keep their relative paint order.
C10_FrontBackStep ==
    (lastOp' \in {"front", "back"} /\ Len(selectedIds) > 0) =>
        \A t \in 1..Len(elements) :
            elements[t].id = selectedIds[1] =>
                /\ Len(elements') = Len(elements)
                /\ \A o \in 1..Len(elements') :
                      o # t =>
                          IF lastOp' = "front"
                          THEN ZOf(elements'[t]) > ZOf(elements'[o])
                          ELSE ZOf(elements'[t]) < ZOf(elements'[o])
                /\ OthersPaintOrder(elements', selectedIds[1])
                      = OthersPaintOrder(elements, selectedIds[1])

C10_FrontBackStrictAndStable == [][C10_FrontBackStep]_vars

\* the editor was opened with the brand asset at zIndex 0 under two elements
\* tied at 25, and the brand asset has been brought to the front
C10_Witness ==
    /\ lastOp = "front"
    /\ selectedIds = <<"brand-asset">>
    /\ Len(history) = 2
    /\ ZOf(initialElements[1]) = 0
    /\ ZOf(initialElements[2]) = 25 /\ ZOf(initialElements[3]) = 25
    /\ PaintOrder(elements) = <<"main-headline", "main-sub", "brand-asset">>

\* seq with the members at positions a and b exchanged
Swapped(seq, a, b) ==
    [k \in 1..Len(seq) |-> IF k = a THEN seq[b] ELSE IF k = b THEN seq[a] ELSE seq[k]]

\* the position of id in the paint order of els
PaintRank(els, id) == CHOOSE r \in 1..Len(els) : PaintOrder(els)[r] = id

\* forward / backward exchange the target with its immediate neighbour in
\* paint order and keep every other position
C11_SwapStep ==
    (lastOp' \in {"forward", "backward"} /\ activeElement # {}) =>
        LET id == selectedIds[1]
            r == PaintRank(elements, id)
            n == Len(elements)
        IN  /\ (lastOp' = "forward" /\ r < n) =>
                  PaintOrder(elements') = Swapped(PaintOrder(elements), r, r + 1)
            /\ (lastOp' = "backward" /\ r > 1) =>
                  PaintOrder(elements') = Swapped(PaintOrder(elements), r, r - 1)

\* forward on the topmost element and backward on the bottommost change nothing
C11_EdgeStep ==
    (lastOp' \in {"forward", "backward"} /\ activeElement # {}) =>
        LET id == selectedIds[1]
            r == PaintRank(elements, id)
            n == Len(elements)
        IN  ((lastOp' = "forward" /\ r = n) \/ (lastOp' = "backward" /\ r = 1)) =>
                /\ elements' = elements
                /\ history' = history
                /\ historyIndex' = historyIndex

C11_SwapsNeighbour == [][C11_SwapStep]_vars

\* C11: changeZIndex('forward') exchanges the target with exactly its immediate
\* upper neighbour in paint order, changeZIndex('backward') with its immediate
\* lower neighbour, every other element keeping its place; forward on the
\* topmost element and backward on the bottommost are no-ops (element list,
\* history and cursor unchanged), however often repeated.
C11_ForwardBackward == [][C11_SwapStep /\ C11_EdgeStep]_vars

\* the positions of the selected elements in the list, lowest first
SelectedAt(els, sel) == {i \in 1..Len(els) : Includes(sel, els[i].id)}

NthSelected(els, sel, k) ==
    CHOOSE i \in SelectedAt(els, sel) :
        Cardinality({j \in SelectedAt(els, sel) : j < i}) = k - 1

IsCopyOf(copy, el) ==
    /\ copy.style = el.style
    /\ copy.width = el.width /\ copy.height = el.height
    /\ copy.rotation = el.rotation
    /\ copy.scaleX = el.scaleX /\ copy.scaleY = el.scaleY
    /\ copy.content = el.content
    /\ copy.x = el.x + 20 /\ copy.y = el.y + 20

DuplicateStep == lastOp' = "duplicateSelected" /\ history' # history

C12_AppendsCopies ==
    DuplicateStep =>
        LET n == Len(elements)
            k == Cardinality(SelectedAt(elements, selectedIds))
        IN  /\ Len(elements') = n + k
            /\ \A c \in 1..k :
                  /\ IsCopyOf(elements'[n + c], elements[NthSelected(elements, selectedIds, c)])
                  /\ \A j \in 1..(n + k) :
                        elements'[j].id = elements'[n + c].id => j = n + c
            /\ selectedIds' = [c \in 1..k |-> elements'[n + c].id]

C12_KeepsSources ==
    DuplicateStep =>
        /\ Len(elements') >= Len(elements)
        /\ SubSeq(elements', 1, Len(elements)) = elements

C12_CommitsOnce ==
    DuplicateStep =>
        /\ historyIndex' = historyIndex + 1
        /\ Len(history') = historyIndex' + 1
        /\ SubSeq(history', 1, historyIndex') = SubSeq(history, 1, historyIndex')
        /\ history'[Len(history')].elements = elements'

\* C12: duplicateSelected on k selected elements appends exactly k elements,
\* each with an id no other element has, with the style, width, height,
\* rotation, scale and content of its source and the source's position moved
\* by (20, 20); the sources stay as they are, the selection becomes the k new
\* ids and one history entry is appended.
C12_DuplicateAppendsOffsetCopies ==
    [][C12_AppendsCopies /\ C12_KeepsSources /\ C12_CommitsOnce]_vars

\* the same statement for a duplication with no gesture in progress
C12_SettledDuplicate ==
    [][PointerUp => (C12_AppendsCopies /\ C12_KeepsSources /\ C12_CommitsOnce)]_vars

\* C13: in every reachable state the ids of the elements are pairwise
\* distinct, whatever sequence of addElement, upload, duplicateSelected,
\* deleteSelected, undo and redo led to it, and whether or not the clock
\* advanced between them.
C13_DistinctIds ==
    \A i, j \in 1..Len(elements) : elements[i].id = elements[j].id => i = j

IsSet(v) == v # "undefined"

\* a step of updateSelected that set the colour of the selected element
C14_ColorStep ==
    \A i \in 1..Len(elements) :
        (/\ lastOp' = "updateSelected"
         /\ IsSelected(elements[i])
         /\ elements'[i].style.color # elements[i].style.color)
            => ~IsSet(elements'[i].style.gradient)

\* setting the colour leaves the gradient unset
C14_ColorClearsGradient == [][C14_ColorStep]_vars

\* C14: the fill of an element is a colour or a gradient, never both: after
\* any sequence of colour-picker and gradient-picker operations no element has
\* both `color` and `gradient` set.
C14_ColorOrGradient ==
    \A i \in 1..Len(elements) :
        ~(IsSet(elements[i].style.color) /\ IsSet(elements[i].style.gradient))

\* the number of gestures that are active
ActiveGestures ==
    Cardinality({f \in {<<"PendingDrag", potentialDrag>>, <<"Dragging", isDragging>>,
                        <<"Resizing", isResizing>>, <<"Rotating", isRotating>>,
                        <<"BackgroundDragging", isDraggingBg>>,
                        <<"BackgroundResizing", isResizingBg>>,
                        <<"EditingText", isEditingText>>} : f[2]})

\* a pointer-down that starts a gesture finds the controller idle
C15_StartStep ==
    (lastOp' = "mouseDown" /\ (potentialDrag' \/ isResizing' \/ isRotating'))
        => ActiveGestures = 0

C15_StartsFromIdle == [][C15_StartStep]_vars

\* C15: in every reachable state at most one of PendingDrag (potentialDrag),
\* Dragging, Resizing, Rotating, BackgroundDragging, BackgroundResizing and
\* EditingText holds.
C15_AtMostOneGesture == ActiveGestures <= 1

\* pointer-move appends nothing to the history
C16_MoveStep ==
    lastOp' = "mouseMove" => (history' = history /\ historyIndex' = historyIndex)

C16_MoveCommitsNothing == [][C16_MoveStep]_vars

GestureInProgress ==
    isDragging \/ isResizing \/ isRotating \/ isDraggingBg \/ isResizingBg

ReleaseStep == lastOp' = "mouseUp" /\ GestureInProgress

\* pointer-up during a gesture appends one entry, the scene at release
C16_ReleaseCommits ==
    ReleaseStep =>
        /\ historyIndex' = historyIndex + 1
        /\ Len(history') = historyIndex' + 1
        /\ SubSeq(history', 1, historyIndex') = SubSeq(history, 1, historyIndex')
        /\ history'[Len(history')] =
              Entry(elements, bgValue, bgType, bgOpacity, bgScale, bgX, bgY)
        /\ elements' = elements /\ bgX' = bgX /\ bgY' = bgY /\ bgScale' = bgScale

C16_ReleaseCommitsOnce == [][C16_ReleaseCommits]_vars

C16_ReleaseIdle == ReleaseStep => ActiveGestures' = 0

\* C16: a drag, resize, rotate or background pan / zoom gesture appends no
\* history entry during pointer-move and exactly one at pointer-up, which
\* records the geometry at release, and after the pointer-up the controller is
\* Idle.
C16_GestureCommitsOnceAtRelease ==
    [][C16_MoveStep /\ C16_ReleaseCommits /\ C16_ReleaseIdle]_vars

Unlocked(id) == \E el \in Find(elements, id) : ~el.locked

AsSet(seq) == {seq[k] : k \in 1..Len(seq)}

\* a plain pointer-down on an unlocked element selects exactly that element
C17_PlainStep ==
    \A id \in ElementIds, a \in {"drag", "resize", "rotate"} :
        (Unlocked(id) /\ handleMouseDown(id, a, FALSE, 0, 0)) => selectedIds' = <<id>>

\* a shift pointer-down on an unlocked element toggles that element alone
C17_ShiftStep ==
    \A id \in ElementIds, a \in {"drag", "resize", "rotate"} :
        (Unlocked(id) /\ handleMouseDown(id, a, TRUE, 0, 0)) =>
            /\ AsSet(selectedIds') \ {id} = AsSet(selectedIds) \ {id}
            /\ Includes(selectedIds', id) = ~Includes(selectedIds, id)

\* a click on the empty canvas clears the selection
C17_EmptyStep == ClearSelection => selectedIds' = <<>>

\* a plain pointer-down on an unlocked element outside the selection
C17_PlainOutsideStep ==
    \A id \in ElementIds, a \in {"drag", "resize", "rotate"} :
        (Unlocked(id) /\ ~Includes(selectedIds, id) /\ handleMouseDown(id, a, FALSE, 0, 0))
            => selectedIds' = <<id>>

C17_PlainOutsideSelects == [][C17_PlainOutsideStep /\ C17_EmptyStep]_vars

\* C17: a plain pointer-down on an unlocked element makes the selection
\* exactly that element whatever the selection was, also when the element was
\* a member of a multi-selection; a shift pointer-down toggles only that
\* element's membership; a click on the empty canvas empties the selection.
C17_PointerDownSelects == [][C17_PlainStep /\ C17_ShiftStep /\ C17_EmptyStep]_vars

C17_PlainSelects == [][C17_PlainStep]_vars

\* a generateImage call with a non-empty prompt that does not short-circuit
GenerationCall ==
    /\ svc.fn = "generateImage"
    /\ svc.prompt # <<>>
    /\ ~StrIncludes(ToLowerCase(svc.prompt), BackgroundSignal)

Settled == svc.outcome \in {"resolved", "rejected"}

PrimaryRequest == GenRequest(StrictPrompt(svc.prompt), svc.aspectRatio)

FallbackRequest == GenRequest(FallbackPrompt(svc.prompt), svc.aspectRatio)

\* the primary attempt gave image data
PrimarySucceeded == Len(svc.responses) >= 1 /\ svc.responses[1] = "image"

\* what the claim says of a settled call
C18_Requests ==
    /\ Len(svc.requests) <= 2
    /\ Settled =>
          IF PrimarySucceeded
          THEN svc.requests = <<PrimaryRequest>> /\ svc.outcome = "resolved"
          ELSE /\ svc.requests = <<PrimaryRequest, FallbackRequest>>
               /\ PrimaryRequest # FallbackRequest
               /\ Len(svc.responses) = 2
               /\ svc.outcome = (IF svc.responses[2] = "image" THEN "resolved"
                                 ELSE "rejected")

\* the statement for every call, with or without an API key
C18_OneOrTwoRequestsAlways == GenerationCall => C18_Requests

\* C18, for an application with an API key: with a key configured, for a non-empty prompt that
\* does not short-circuit, generateImage issues exactly one request when the
\* primary attempt returns image data and exactly two (the primary framing,
\* then the distinct fallback framing) when the primary request fails by
\* exception, missing content or a text-only refusal; it never issues a third
\* and rejects once if the fallback fails too. Without an API key both
\* attempts fail before any request is issued.
C18_OneOrTwoRequests == (apiKey /\ GenerationCall) => C18_Requests

\* both attempts were refused: two requests, one rejection
C18_Witness ==
    /\ apiKey /\ GenerationCall
    /\ svc.responses = <<"text", "text">>
    /\ svc.outcome = "rejected"
    /\ Len(svc.requests) = 2

\* the prompt of the call carries the signal, in whatever letter case
Signalled == StrIncludes(ToLowerCase(svc.prompt), BackgroundSignal)

\* a signalled call sends nothing
C19_NoRequest ==
    (svc.fn = "generateImage" /\ Signalled) =>
        (svc.requests = <<>> /\ svc.outcome = "resolved")

\* a signalled call returns the first reference hint
C19_ReturnsFirstHint ==
    (svc.fn = "generateImage" /\ Signalled) =>
        (Len(svc.hints) >= 1 /\ svc.value = svc.hints[1])

\* any other call issues the primary request
C19_OtherwisePrimary ==
    (svc.fn = "generateImage" /\ ~Signalled) =>
        (Len(svc.requests) >= 1 /\ svc.requests[1] = PrimaryRequest)

\* C19: when the prompt contains the user-provided-background signal in any
\* letter case, generateImage issues no request and returns the first
\* reference hint; otherwise it issues its primary request.
C19_ShortCircuit == C19_NoRequest /\ C19_ReturnsFirstHint /\ C19_OtherwisePrimary

EditCall == svc.fn = "editImage"

\* an edit call never sends a second request, and fails on a response
\* without image data
C20_SingleAttempt ==
    EditCall =>
        /\ Len(svc.requests) <= 1
        /\ Len(svc.responses) <= 1
        /\ (Len(svc.responses) = 1 /\ svc.responses[1] # "image")
              => svc.outcome = "rejected"

\* an edit call that has a prompt and an API key sends its one request
C20_OneRequest ==
    (EditCall /\ apiKey /\ svc.prompt # <<>>) => Len(svc.requests) = 1

\* the step in which an edit call fails
EditFails == svc' # svc /\ svc'.fn = "editImage" /\ svc'.outcome = "rejected"

\* the failure leaves the caller's images and histories as they were
C20_FailureStep ==
    EditFails =>
        /\ elements' = elements
        /\ bgValue' = bgValue /\ bgType' = bgType
        /\ history' = history /\ historyIndex' = historyIndex
        /\ studio'.currentImage = studio.currentImage
        /\ studio'.history = studio.history

\* the statement for every call, with or without an API key
C20_ExactlyOneRequestAlways ==
    [](EditCall => Len(svc.requests) = 1) /\ [][C20_FailureStep]_vars

\* C20, with the API key made explicit: editImage never retries and makes at most one request:
\* exactly one when an API key is configured, none without a key, where it
\* fails before sending; a response without an image payload fails the call,
\* and a failing call leaves the editor's target image, element list and
\* history, and the Image Studio's currentImage and history, as they were.
C20_SingleEditAttempt ==
    [](C20_SingleAttempt /\ C20_OneRequest) /\ [][C20_FailureStep]_vars

\* a Magic Edit of the editor was refused: one request, the call rejected
C20_Witness ==
    /\ EditCall /\ apiKey
    /\ svc.caller = "CanvasEditor"
    /\ svc.responses = <<"text">>
    /\ svc.outcome = "rejected"
    /\ Len(svc.requests) = 1

---------------------------------------------------------------------------
(* Claims on the campaign planner and its slots *)

\* a step in which handleSubmit resumes after generateBannerPlan has settled
SubmitSettles ==
    campaign'.planning # campaign.planning /\ campaign'.planning \subseteq campaign.planning

\* the plan in the caller's state has every key of the response schema
PlanComplete(cmp) == cmp.plan # <<>> /\ cmp.plan[1].keys = PlanKeys

\* the fence stripping and the parse accept a fenced plan and reject three
\* fenced blocks
C21_ParseRejectsBlocks ==
    \A response \in PlanResponses :
        (apiKey /\ Len(response.text) > 5) => ~generateBannerPlan(response).ok

\* C21: a plan response that does not have the full required shape after the
\* code fences are stripped is rejected: when handleSubmit resumes, either
\* the plan it accepts has main_banner, additional_banners and seo, or no
\* plan is set, no slot's image is written and no image generation is
\* triggered.
C21_RejectsIncompletePlans ==
    [][SubmitSettles =>
         \/ PlanComplete(campaign')
         \/ /\ campaign'.plan = <<>>
            /\ campaign'.issued = campaign.issued
            /\ campaign'.generatedImages = campaign.generatedImages]_vars

\* the export that settled last was of a render with a source that failed to
\* decode
ExportWithBrokenSource ==
    /\ exporter.returned # <<>>
    /\ exporter.returned[1].broken # {}

\* C22: when the background image or an image / logo element fails to decode
\* during the export, the composite is still completed: the raster returned
\* has the background and every other layer in paint order, and handleSave
\* delivers it to onSave.
C22_ExportSurvivesBrokenLayer ==
    ExportWithBrokenSource =>
        LET r == exporter.returned[1]
        IN  /\ r.finalImage = generateCanvasDataSkipping(r.render, r.broken)
            /\ exporter.delivered # <<>>
            /\ exporter.delivered[Len(exporter.delivered)].finalImage = r.finalImage

\* an export whose sources all decode returns every layer in paint order and
\* is delivered to onSave with the elements and the background of its render
C22_ExportDelivered ==
    (exporter.returned # <<>> /\ exporter.returned[1].broken = {}) =>
        LET r == exporter.returned[1]
            d == exporter.delivered[Len(exporter.delivered)]
        IN  /\ r.finalImage = <<"background">> \o PaintOrder(r.render.elements)
            /\ d.finalImage = r.finalImage
            /\ d.elements = r.render.elements

\* the calls of triggerImageGeneration for which this step runs the code
\* after the await
Completing ==
    {f \in campaign.flights : \A g \in campaign'.flights : g.serial # f.serial}

\* a call that is no longer the latest one issued for its slot
Superseded(f) == f.serial < campaign.latest[f.id]

\* C23: when a second generation request is issued for a slot while an earlier
\* one is outstanding, the earlier request's completion neither writes the
\* slot's image nor clears the slot's awaiting indicator, so the slot ends
\* with the result of the latest request whatever the completion order.
C23_LatestRequestWins ==
    [][\A f \in Completing :
          Superseded(f) =>
              /\ campaign'.generatedImages[f.id] = campaign.generatedImages[f.id]
              /\ campaign'.generatingStatus[f.id] = campaign.generatingStatus[f.id]
              /\ campaign'.generationErrors[f.id] = campaign.generationErrors[f.id]]_vars

\* two requests for one slot are outstanding
OverlappingRequests ==
    \E f, g \in campaign.flights : f.id = g.id /\ f.serial # g.serial

\* what the completion of the call f does to its own slot: the awaiting flag
\* is cleared and either the image is stored or, after the second attempt has
\* failed, the failure flag is set
OwnSlotSettled(f) ==
    /\ campaign'.generatingStatus[f.id] = FALSE
    /\ \/ /\ campaign'.generatedImages[f.id] = ImageOf(f.call.requests[f.call.attempt])
          /\ campaign'.wrote[f.id] = f.serial
          /\ campaign'.generationErrors[f.id] = campaign.generationErrors[f.id]
       \/ /\ f.call.attempt = 2
          /\ campaign'.generationErrors[f.id] = TRUE
          /\ campaign'.generatedImages[f.id] = campaign.generatedImages[f.id]

OtherSlotsUntouched(f) ==
    \A s \in Slots \ {f.id} :
        /\ campaign'.generatedImages[s] = campaign.generatedImages[s]
        /\ campaign'.generatingStatus[s] = campaign.generatingStatus[s]
        /\ campaign'.generationErrors[s] = campaign.generationErrors[s]

\* C24: generation requests for different slots are independent: whenever a
\* request completes, by success or failure and in any order with the other
\* requests in flight, it writes the image, awaiting flag and error flag of
\* its own slot only, and what it writes depends on its own outcome alone.
C24_SlotsIndependent ==
    [][\A f \in Completing : OwnSlotSettled(f) /\ OtherSlotsUntouched(f)]_vars

\* the two slots of one plan have completed, the main banner with an image
\* and the slide with a failure
C24_Witness ==
    /\ campaign.submitted = 1 /\ campaign.flights = {}
    /\ campaign.wrote["main"] = 1 /\ campaign.generatedImages["main"] # "undefined"
    /\ campaign.generationErrors["slide-0"] /\ ~campaign.generationErrors["main"]
    /\ campaign.generatedImages["slide-0"] = "undefined"

\* the slide's request completes while the main banner's is still in flight
C24_SlideFirst ==
    /\ campaign.submitted = 1
    /\ campaign.wrote["slide-0"] = 2 /\ campaign.generatingStatus["main"]
    /\ \E f \in campaign.flights : f.id = "main"

\* the completion of the call f is a failure: both attempts failed and the
\* call did not write the slot's image
Failed(f) == f \in Completing /\ campaign'.wrote[f.id] # f.serial

\* a step of the retry button of the slot id
Retried(id) ==
    /\ campaign'.issued = campaign.issued + 1
    /\ campaign'.latest[id] = campaign'.issued
    /\ campaign'.plan = campaign.plan /\ campaign'.planning = campaign.planning

\* when a slot's generation fails, that slot's failure flag is set, its
\* awaiting flag is cleared, its image is still empty, the other slots are as
\* before and the slot's retry button is on screen
FailureMarksSlot ==
    \A f \in Completing :
        Failed(f) =>
            /\ campaign'.generationErrors[f.id]
            /\ ~campaign'.generatingStatus[f.id]
            /\ campaign'.generatedImages[f.id] = "undefined"
            /\ OtherSlotsUntouched(f)
            /\ RetryShown(f.id)'

\* a retry clears the failure flag and sets the awaiting flag of its slot and
\* leaves the other slots as they were
RetryMarksSlot ==
    \A id \in Slots :
        Retried(id) =>
            /\ ~campaign'.generationErrors[id]
            /\ campaign'.generatingStatus[id]
            /\ \A s \in Slots \ {id} :
                  /\ campaign'.generatedImages[s] = campaign.generatedImages[s]
                  /\ campaign'.generatingStatus[s] = campaign.generatingStatus[s]
                  /\ campaign'.generationErrors[s] = campaign.generationErrors[s]

\* the awaiting flag of a slot is set for as long as its latest request is
\* outstanding
AwaitedUntilComplete ==
    \A f \in campaign.flights :
        f.serial = campaign.latest[f.id] => campaign.generatingStatus[f.id]

\* C25: when a slot's image generation fails (both attempts), only that
\* slot's failure flag is set, its awaiting flag is cleared and its image
\* stays empty; the slot can then be retried on its own, and a retry clears
\* the failure flag and sets the awaiting flag again until it completes.
C25_FailureAndRetry ==
    []AwaitedUntilComplete /\ [][FailureMarksSlot /\ RetryMarksSlot]_vars

\* the same for a campaign form that has been submitted once
C25_SingleSubmission ==
    /\ [](campaign.submitted = 1 => AwaitedUntilComplete)
    /\ [][campaign.submitted = 1 => (FailureMarksSlot /\ RetryMarksSlot)]_vars

\* a retry is in flight for a slot whose generation had failed
RetryInFlight ==
    /\ campaign.submitted = 1 /\ campaign.issued = 3
    /\ \E f \in campaign.flights : f.serial = 3 /\ campaign.generatingStatus[f.id]

---------------------------------------------------------------------------
(* Claims on the AI handlers of the editor *)

\* a step in which handleGenerateBackground or handleMagicEdit runs its catch
\* block: the awaited call was rejected, or the call was rejected before a
\* request was sent
AssistFails ==
    \/ lastOp' = "generateReject"
    \/ lastOp' = "magicEditSettled" /\ svc'.outcome = "rejected"
    \/ lastOp' = "magicEdit" /\ svc' # svc /\ svc'.outcome = "rejected"

\* C26: a failed background generation or Magic Edit does not change the
\* History: the step in which the handler fails leaves the history entries,
\* the cursor, the element list and the background fields as they were and
\* clears the awaiting flag isGenerating.
C26_FailureChangesNothing ==
    [][AssistFails =>
          /\ UNCHANGED <<history, historyIndex, elements, bgVars>>
          /\ isGenerating' = FALSE]_vars

\* a Magic Edit of the brand asset was refused after an edit had been made
C26_Witness ==
    /\ lastOp = "magicEditSettled" /\ svc.outcome = "rejected"
    /\ Len(svc.requests) = 1
    /\ ~isGenerating /\ pending = {}
    /\ Len(history) = 2 /\ historyIndex = 1

\* a background generation has failed
C26_BackgroundFailed ==
    lastOp = "generateReject" /\ ~isGenerating /\ bgValue = "bg.png"

---------------------------------------------------------------------------
(* Claims on the layer order, continued *)

DistinctZ(els) ==
    \A i, j \in 1..Len(els) : i # j => els[i].style.zIndex # els[j].style.zIndex

LayerMoves == {"front", "back", "forward", "backward"}

\* changeZIndex reads the first selected id only: whichever element of the
\* list that is, and whatever else is selected, the list it computes has no
\* two equal zIndex values
ReorderedDistinct ==
    \A i \in 1..Len(elements), type \in LayerMoves :
        DistinctZ(Reordered(elements, elements[i].id, type))

\* C27: after every changeZIndex call the zIndex values of all elements are
\* pairwise distinct, whatever the starting list (ties included) and the
\* selection, so repeated moves never produce a z-index collision.
C27_DistinctAfterMove ==
    []ReorderedDistinct /\ [][lastOp' \in LayerMoves => DistinctZ(elements')]_vars

\* a move has been made on a list that opened with all three on one zIndex
C27_Witness ==
    /\ lastOp = "forward"
    /\ \A i \in 1..Len(initialElements) : initialElements[i].style.zIndex = 20
    /\ Len(history) = 3
    /\ DistinctZ(elements)

---------------------------------------------------------------------------
(* Claims on text editing *)

\* the release of a press on an element that never became a drag
ClickReleased == lastOp' = "mouseUp" /\ potentialDrag /\ ~isDragging

\* the geometry of the selected elements is what it was at the press
GeometryAsPressed ==
    \A i \in 1..Len(elements') :
        \A sid \in DOMAIN elementsStart :
            elements'[i].id = sid =>
                /\ elements'[i].x = elementsStart[sid].x
                /\ elements'[i].y = elementsStart[sid].y
                /\ elements'[i].width = elementsStart[sid].width
                /\ elements'[i].height = elementsStart[sid].height
                /\ elements'[i].rotation = elementsStart[sid].rotation

\* the selection is the pressed element alone, a text or cta that is not
\* locked
PressedTextAlone ==
    /\ selectedIds = <<dom.target>>
    /\ \E el \in Find(elements, dom.target) : el.type \in {"text", "cta"} /\ ~el.locked

\* a click changes no geometry and appends no history entry
C28_ClickChangesNothing ==
    [][ClickReleased =>
          /\ elements' = elements /\ GeometryAsPressed
          /\ UNCHANGED <<history, historyIndex>>]_vars

\* C28: a press and release on an element with a displacement of at most 2
\* page units on both axes changes no element geometry and appends no
\* History entry; it enters EditingText if and only if the selection is that
\* single element and it is an unlocked text or cta, and otherwise the
\* controller is Idle after the release.
C28_ClickEntersEditing ==
    [][ClickReleased =>
          /\ elements' = elements /\ GeometryAsPressed
          /\ UNCHANGED <<history, historyIndex>>
          /\ isEditingText' = PressedTextAlone
          /\ ~(isDragging' \/ potentialDrag' \/ isResizing' \/ isRotating'
                 \/ isDraggingBg' \/ isResizingBg')]_vars

\* a step in which the blur of an edited text is handled
BlurHandled == lastOp' = "blur" /\ dom.blurs # <<>>

\* the content of every element but id is unchanged by the step
OthersKeepContent(id) ==
    \A i \in 1..Len(elements) :
        elements[i].id # id => elements'[i].content = elements[i].content

\* the element id holds the text
Holds(id, text) ==
    \E i \in 1..Len(elements) : elements'[i].id = id /\ elements'[i].content = text

\* C29: when an in-place text edit loses the focus, the edited text is
\* committed to the content of the element that was being edited and to no
\* other element, and the controller leaves EditingText, also when the focus
\* was lost to a press on another element or to a shift-click.
C29_BlurCommitsEditedText ==
    [][BlurHandled =>
          /\ Holds(Head(dom.blurs).currentTarget, Head(dom.blurs).textContent)
          /\ OthersKeepContent(Head(dom.blurs).currentTarget)
          /\ isEditingText' = FALSE]_vars

\* the same when the focus left the editor without a press on an element
C29_BlurOutsideCommits ==
    [][(BlurHandled /\ selectedIds = <<Head(dom.blurs).currentTarget>>) =>
          /\ Holds(Head(dom.blurs).currentTarget, Head(dom.blurs).textContent)
          /\ OthersKeepContent(Head(dom.blurs).currentTarget)
          /\ isEditingText' = FALSE]_vars

\* typed text has been committed to the headline
TypedTextCommitted ==
    /\ lastOp = "blur" /\ ~isEditingText
    /\ \E i \in 1..Len(elements) :
          elements[i].id = "main-headline" /\ elements[i].content = "Sale"

---------------------------------------------------------------------------
(* C30: the background gestures and the bounds of the background scale       *)

\* the background reacts to the pointer and the wheel
BackgroundActive == Len(selectedIds) = 0 /\ bgType = "image"

\* a step on which a background pan or zoom gesture starts
BgGestureStarts ==
    \/ ~isDraggingBg /\ isDraggingBg'
    \/ ~isResizingBg /\ isResizingBg'

\* a wheel step that changes the background scale
WheelRescales == lastOp' = "wheel" /\ bgScale' # bgScale

\* 0.5 to 5, in tenths
ScaleInRange == bgScale \in 5..50

\* C30: a background pan or zoom gesture starts only when no element is
\* selected and the background is an image, the wheel changes the scale only
\* under the same condition, and from an initial scale in [0.5, 5] the scale
\* stays in [0.5, 5] through every sequence of wheel, background resize,
\* slider, generation, undo and redo steps
C30_BackgroundScaleBounded ==
    /\ []ScaleInRange
    /\ [][BgGestureStarts => BackgroundActive]_vars
    /\ [][WheelRescales => BackgroundActive]_vars

\* a background resize gesture and a wheel step each stopped at a bound, and
\* an undo brought back a scale that a gesture had left
C30_Witness ==
    /\ isResizingBg /\ lastOp = "mouseMove"
    /\ bgScale = 50
    /\ bgDragStart.initialScale < 50

C30_WheelClamped == lastOp = "wheel" /\ bgScale = 5 /\ run.edits > 0

C30_UndoRestoresScale == lastOp = "undo" /\ bgScale # 10 /\ run.edits > 0

---------------------------------------------------------------------------
(* C31: the rotation stored while rotating                                   *)

\* the multiple of 45 nearest to v
NearestMultiple(v) == ((2 * v + 45) \div 90) * 45

\* v with the snap applied on either side of a multiple of 45
SnappedEitherSide(v) ==
    IF Abs(v - NearestMultiple(v)) < 5 THEN NearestMultiple(v) ELSE v

\* the rotation of the single selected element after the step
RotationStored(r) ==
    \A i \in 1..Len(elements') :
        elements'[i].id = selectedIds[1] => elements'[i].rotation = r

\* a pointer move at angle a while Rotating a single selected element
RotatingMove(a) ==
    /\ isRotating /\ Len(selectedIds) = 1
    /\ handleMouseMove(0, 0, a)

\* C31: while Rotating a single selected element the stored rotation is the
\* pointer angle plus 90 degrees, replaced by the nearest multiple of 45
\* whenever it lies within 5 degrees of that multiple on either side, and
\* left as it is otherwise
C31_RotationSnapsEitherSide ==
    [][\A a \in RotateAngles :
          RotatingMove(a) => RotationStored(SnappedEitherSide(a + 90))]_vars

\* the same for the angles whose remainder by 45 is small: those just above a
\* multiple when positive, just below when negative
C31_RotationSnapsOneSide ==
    [][\A a \in RotateAngles :
          (RotatingMove(a) /\ Abs(JsRem(a + 90, 45)) < 5)
              => RotationStored(SnappedEitherSide(a + 90))]_vars

\* two degrees below 45 is stored as it is
RotationLeftBelow ==
    /\ isRotating /\ lastOp = "mouseMove" /\ Len(selectedIds) = 1
    /\ \E i \in 1..Len(elements) :
          elements[i].id = selectedIds[1] /\ elements[i].rotation = 43

---------------------------------------------------------------------------
(* C32: the Delete / Backspace and Ctrl/Cmd+D keys and the focus              *)

\* a text-edit field has the focus: the text of an element being edited in
\* place, or a text input of the panels
TextFieldFocused == dom.focus # "" \/ isEditingText

\* a key press that ran deleteSelected or duplicateSelected
KeyActed == lastOp' \in {"deleteSelected", "duplicateSelected"}

\* C32: while an in-place text edit or a text input (prompt textarea, numeric
\* field) has the focus, a Delete / Backspace or Ctrl/Cmd+D key press changes
\* neither the element list nor the History
C32_KeysInertInTextFields ==
    [][(TextFieldFocused /\ KeyActed) =>
          (elements' = elements /\ history' = history
              /\ historyIndex' = historyIndex)]_vars

\* Delete / Backspace during an in-place text edit is ignored
C32_DeleteIgnoredInPlace ==
    [][isEditingText => lastOp' # "deleteSelected"]_vars

\* Backspace in the Magic Edit prompt has removed the selected element
DeletedFromPrompt ==
    /\ lastOp = "deleteSelected" /\ dom.focus = "editPrompt"
    /\ Len(elements) < Len(initialElements)

\* Ctrl/Cmd+D during an in-place text edit has duplicated the element
DuplicatedInPlace ==
    /\ lastOp = "duplicateSelected" /\ isEditingText
    /\ Len(elements) > Len(initialElements)

---------------------------------------------------------------------------
(* C33: the parameters of a retry                                            *)

\* the call of triggerImageGeneration that a retry of the slot id issues
RetryIssued(id) == {f \in campaign'.flights \ campaign.flights : f.id = id}

\* a step of the retry button of the slot id, whose last request failed
RetryOfFailed(id) ==
    /\ RetryShown(id) /\ Retried(id)
    /\ campaign.asked[id] # <<>>

\* C33: the retry offered after a failed slot generation re-issues the
\* request with exactly the parameters of the failed one (slot id, prompt,
\* aspect ratio and reference images), also when the aspect ratio or an
\* uploaded image was changed between the failure and the retry
C33_RetrySameParameters ==
    [][\A id \in Slots :
          RetryOfFailed(id) =>
              \A f \in RetryIssued(id) :
                  RequestParameters(f) = campaign.asked[id][1]]_vars

\* the retry re-issues the slot id and the prompt of the failed request
C33_RetrySameSlotAndPrompt ==
    [][\A id \in Slots :
          RetryOfFailed(id) =>
              \A f \in RetryIssued(id) :
                  /\ RequestParameters(f).id = campaign.asked[id][1].id
                  /\ RequestParameters(f).prompt = campaign.asked[id][1].prompt]_vars

\* a retry is in flight with another aspect ratio than the failed request had
RetryWithOtherRatio ==
    \E f \in campaign.flights :
        /\ f.serial > Cardinality(Slots)
        /\ f.call.aspectRatio = "4:5"
        /\ campaign.plan # <<>>

---------------------------------------------------------------------------
(* C34: a Magic Edit result and a target deleted meanwhile                   *)

\* the image elements that the Magic Edits in flight were started for
MagicTargets ==
    {c.selectedIds[1] : c \in {p \in pending : /\ p.kind = "magicEdit"
                                                /\ Len(p.selectedIds) = 1}}

\* the step applies the result of a Magic Edit
MagicEditApplied == lastOp' = "magicEditSettled" /\ svc'.outcome = "resolved"

\* no element that the list lacks before the step is in it afterwards
NothingRecreated ==
    \A i \in 1..Len(elements') : Find(elements, elements'[i].id) # {}

\* no element but the target t has another content after the step
OnlyTargetRewritten(t) ==
    \A i \in 1..Len(elements') :
        \A el \in Find(elements, elements'[i].id) :
            el.id # t => elements'[i].content = el.content

\* C34: when the image element a Magic Edit was started for is deleted, or
\* the selection changes, before the result arrives, applying the result
\* does not re-create a deleted element and changes the content of no
\* element other than the original target
C34_ResultSparesDeletedSlot ==
    [][MagicEditApplied =>
          /\ NothingRecreated
          /\ \A t \in MagicTargets : OnlyTargetRewritten(t)]_vars

\* the same for a result that arrives while its target still exists
C34_ResultOnExistingTarget ==
    [][(MagicEditApplied /\ \A t \in MagicTargets : Find(elements, t) # {}
                         /\ Len(elements) = Len(initialElements)) =>
          /\ NothingRecreated
          /\ \A t \in MagicTargets : OnlyTargetRewritten(t)]_vars

\* the deleted target is back in the list, holding the edited image
DeletedTargetRecreated ==
    /\ lastOp = "magicEditSettled" /\ svc.outcome = "resolved"
    /\ run.edits = 2
    /\ \E el \in Find(elements, "brand-asset") : el.content = svc.value

---------------------------------------------------------------------------
(* C35: every save terminates                                                *)

\* an export is under way
SaveUnderWay == exporter.runs # <<>>

\* generateCanvasData returned an image or null
Resolved ==
    exporter.returned # <<>> =>
        \/ exporter.returned[1].finalImage = <<>>
        \/ Head(exporter.returned[1].finalImage) = "background"

\* C35: provided each image source eventually reports loaded or failed,
\* every save terminates: generateCanvasData resolves, with an image or with
\* null, for every scene and every set of failing sources, and handleSave
\* returns isSaving to false
C35_EverySaveTerminates ==
    /\ SaveUnderWay ~> ~SaveUnderWay
    /\ exporter.isSaving ~> ~exporter.isSaving
    /\ [](~SaveUnderWay => ~exporter.isSaving)
    /\ []Resolved

\* the last of two saves has returned without an image because a source
\* failed, and isSaving is false
C35_Witness ==
    /\ lastOp = "saveSettled" /\ ~SaveUnderWay /\ ~exporter.isSaving
    /\ exporter.started = SaveBudget
    /\ exporter.returned[1].finalImage = <<>>
    /\ exporter.returned[1].broken # {}

---------------------------------------------------------------------------
(* C36: the live Scene and the snapshot under the cursor                     *)

\* the controller is Idle and no asynchronous request is pending
IdleAndSettled ==
    /\ PointerUp /\ ~isEditingText
    /\ pending = {} /\ ~isGenerating
    /\ exporter.runs = <<>>

\* C36: whenever the controller is Idle and no asynchronous request is
\* pending, the live Scene (the element list and every background field) is
\* deeply equal to history[historyIndex], after any sequence of edits,
\* gestures, generations, undo and redo
C36_SceneIsSnapshot ==
    IdleAndSettled => Scene = history[historyIndex + 1]

\* Reset to Color has left a colour background on a snapshot that holds the
\* image
ResetLeftUncommitted ==
    /\ IdleAndSettled /\ lastOp = "resetToColor"
    /\ bgType = "color" /\ history[historyIndex + 1].bgType = "image"

\* a commit, an undo or a redo made while nothing is pending leaves the live
\* Scene equal to the snapshot under the cursor
C36_AgreeAfterCommit ==
    [][((history' # history \/ historyIndex' # historyIndex) /\ pending = {})
          => Scene' = history'[historyIndex' + 1]]_vars

---------------------------------------------------------------------------
(* C37: the selection refers to elements that exist                          *)

\* C37: in every reachable state every id in the selection refers to an
\* element of the element list, after any sequence of add, delete,
\* duplicate, undo and redo
C37_SelectionExists ==
    \A k \in 1..Len(selectedIds) : Find(elements, selectedIds[k]) # {}

\* delete and duplicate leave a selection of existing elements
C37_ExistsAfterListEdit ==
    [][lastOp' \in {"deleteSelected", "duplicateSelected", "addElement", "select"}
          => C37_SelectionExists']_vars

\* an undo has removed the element that was added and is still selected; the
\* layer-order, align and flip buttons, which need activeElement, are disabled
UndoLeftSelection ==
    /\ lastOp = "undo"
    /\ Len(selectedIds) = 1 /\ Find(elements, selectedIds[1]) = {}
    /\ activeElement = {}

---------------------------------------------------------------------------
(* C38: edits committed while an asynchronous operation is pending           *)

\* the step applies the result of a background generation, a Magic Edit or
\* the decode of an uploaded image
ResultApplied ==
    /\ pending' # pending /\ pending' \subseteq pending
    /\ \/ lastOp' \in {"generateResolve", "uploadDecoded"}
       \/ lastOp' = "magicEditSettled" /\ svc'.outcome = "resolved"

\* the History up to the cursor is kept and the operation's entry follows it
EntriesKept ==
    LET kept == SubSeq(history, 1, historyIndex + 1)
    IN  /\ Len(history') = Len(kept) + 1
        /\ SubSeq(history', 1, Len(kept)) = kept
        /\ historyIndex' = Len(kept)
        /\ history'[Len(history')].elements = elements'

\* every live element is still in the list as it was, but for the content of
\* an image
EditsKept ==
    /\ Len(elements') >= Len(elements)
    /\ \A i \in 1..Len(elements) :
          [elements'[i] EXCEPT !.content = elements[i].content] = elements[i]

\* C38: element edits and History entries committed while a background
\* generation, a Magic Edit or the decode of an upload is pending are not
\* lost when its result is applied: the live element list still holds the
\* edits and the History still holds the entries, the operation's own entry
\* appended after them
C38_PendingEditsSurvive ==
    [][ResultApplied => (EditsKept /\ EntriesKept)]_vars

\* nothing was committed between the start of the operation and its result
NothingCommittedMeanwhile ==
    \A c \in pending :
        /\ c.history = history /\ c.historyIndex = historyIndex
        /\ c.elements = elements

\* the same when nothing was committed while the operation was pending
C38_QuietResultAppends ==
    [][(ResultApplied /\ NothingCommittedMeanwhile) => (EditsKept /\ EntriesKept)]_vars

\* a generated background has arrived and the entry of the flip committed
\* meanwhile is no longer in the History
FlipEntryLost ==
    /\ lastOp = "generateResolve" /\ run.edits = 2
    /\ Len(history) = 2

---------------------------------------------------------------------------
(* C39: the keyboard shortcuts and the toolbar buttons                       *)

\* what Ctrl/Cmd+Z and the toolbar undo button would restore in this state
KeyboardUndoRestores == UndoResult(keys.history, keys.historyIndex, Scene)

ToolbarUndoRestores == UndoResult(history, historyIndex, Scene)

\* C39: the keyboard shortcuts act on the same history and element list as
\* the toolbar buttons: in every reachable state, also when the history
\* holds 20 entries and a new edit leaves the cursor value unchanged,
\* keyboard undo restores exactly the snapshot that the toolbar undo button
\* would restore
C39_KeyboardUndoAsToolbar ==
    /\ KeyboardUndoRestores = ToolbarUndoRestores
    /\ keys.history = history /\ keys.elements = elements

\* the same while the history has not reached its limit
C39_AgreeBelowLimit ==
    Len(history) < HISTORY_LIMIT =>
        /\ KeyboardUndoRestores = ToolbarUndoRestores
        /\ keys.history = history /\ keys.elements = elements

\* the history is full, the last commit left the cursor on 19 and the key
\* handler still holds the history of the render before it
KeyHandlerStale ==
    /\ Len(history) = HISTORY_LIMIT /\ historyIndex = HISTORY_LIMIT - 1
    /\ keys.historyIndex = historyIndex
    /\ keys.history # history
    /\ KeyboardUndoRestores # ToolbarUndoRestores

---------------------------------------------------------------------------
(* C40: the delete button of a Layers row                                    *)

\* one History entry, holding the Scene after the step, follows the entries
\* up to the cursor
OneEntryAppended ==
    LET kept == SubSeq(history, 1, historyIndex + 1)
    IN  /\ history' = Append(kept, Scene')
        /\ historyIndex' = Len(kept)

\* C40: pressing the delete control of a row of the Layers list removes
\* exactly that row's element from the scene and no other element, whatever
\* the selection was before the click, and appends one History entry
C40_RowDeleteRemovesRow ==
    [][\A id \in ElementIds :
          LayerRowDelete(id) =>
              /\ elements' = Remaining(elements, <<id>>)
              /\ OneEntryAppended]_vars

\* the same when the row's element was the whole selection before the click
C40_SelectedRowDeleted ==
    [][\A id \in ElementIds :
          (LayerRowDelete(id) /\ selectedIds = <<id>>) =>
              /\ elements' = Remaining(elements, <<id>>)
              /\ OneEntryAppended]_vars

\* every press appends one History entry
C40_RowDeleteCommits ==
    [][\A id \in ElementIds : LayerRowDelete(id) => OneEntryAppended]_vars

\* the delete button of the headline's row was pressed while the brand asset
\* was selected: the brand asset is gone and the headline is still there
OtherRowDeleted ==
    /\ lastOp = "layerRowDelete" /\ run.edits = 1
    /\ Find(elements, "main-headline") # {}
    /\ Find(elements, "brand-asset") = {}

=============================================================================
